---- MODULE Spec2Model ----
(***************************************************************************)
(* Signal detection and aggregation of the crypto buy/sell dashboard.      *)
(*                                                                         *)
(* Persisted mode: server/signals/{index,wavetrend,rsi,ma_crossover,       *)
(* breakouts}.js.  Live mode: src/utils/signals.js.                        *)
(*                                                                         *)
(* JavaScript Numbers are modelled as fixed-point integers: the integer v  *)
(* stands for the real v / Scale.  The non-finite Numbers and the two      *)
(* empty values of the language have codes outside the finite range.       *)
(* Arrays are sequences; At(a, i) is the JavaScript read a[i] (0-based,    *)
(* undefined outside the array).                                           *)
(***************************************************************************)
EXTENDS Integers, Sequences, FiniteSets, TLC

VARIABLES
  klines,   \* the candle series handed to the detectors (an array, or null)
  now,      \* Date.now()
  aggInput, \* the signal list handed to the aggregator by the last call
  aggGroups,\* the time groups the aggregator formed from it, per direction
  result,   \* the last call: [op, out]
  runs,     \* the lists returned by the direct calls of detectAllSignals so far
  table,    \* the rows of the server's signals table
  queue,    \* the statements the server has handed to the database, not yet run
  calls     \* the number of calls of the server's detectSignals so far

vars == <<klines, now, aggInput, aggGroups, result, runs, table, queue, calls>>

-----------------------------------------------------------------------------
(* JavaScript Number arithmetic                                            *)

Scale == 1000

PosInf == 2000000000
NegInf == 0 - PosInf
NaN == PosInf + 1
Undef == PosInf + 2
Null == PosInf + 3

N(i) == i * Scale

IsFin(x) == x > NegInf /\ x < PosInf

\* ToNumber: null converts to 0, undefined to NaN
ToNum(x) == IF x = Null THEN 0 ELSE IF x = Undef THEN NaN ELSE x

IsNaN(x) == ToNum(x) = NaN

Sgn(x) == IF x > 0 THEN 1 ELSE IF x < 0 THEN 0 - 1 ELSE 0

InfOf(s) == IF s > 0 THEN PosInf ELSE NegInf

\* integer quotient rounded to the nearest integer, d # 0
RDiv(n, d) ==
  IF d > 0 THEN (2 * n + d) \div (2 * d) ELSE (2 * (0 - n) - d) \div (2 * (0 - d))

Neg(a) ==
  LET x == ToNum(a)
  IN  IF x = NaN THEN NaN ELSE IF x = PosInf THEN NegInf
      ELSE IF x = NegInf THEN PosInf ELSE 0 - x

Add(a, b) ==
  LET x == ToNum(a)
      y == ToNum(b)
  IN  IF x = NaN \/ y = NaN THEN NaN
      ELSE IF IsFin(x) /\ IsFin(y) THEN x + y
      ELSE IF IsFin(x) THEN y
      ELSE IF IsFin(y) THEN x
      ELSE IF x = y THEN x ELSE NaN

Sub(a, b) == Add(a, Neg(b))

Mul(a, b) ==
  LET x == ToNum(a)
      y == ToNum(b)
  IN  IF x = NaN \/ y = NaN THEN NaN
      ELSE IF IsFin(x) /\ IsFin(y)
           THEN IF y % Scale = 0 THEN x * (y \div Scale)
                ELSE IF x % Scale = 0 THEN (x \div Scale) * y
                ELSE RDiv(x * y, Scale)
      ELSE IF x = 0 \/ y = 0 THEN NaN
      ELSE InfOf(Sgn(x) * Sgn(y))

Div(a, b) ==
  LET x == ToNum(a)
      y == ToNum(b)
  IN  IF x = NaN \/ y = NaN THEN NaN
      ELSE IF IsFin(x) /\ IsFin(y)
           THEN IF y = 0 THEN (IF x = 0 THEN NaN ELSE InfOf(x))
                ELSE IF y % Scale = 0 THEN RDiv(x, y \div Scale)
                ELSE RDiv(x * Scale, y)
      ELSE IF IsFin(x) THEN 0
      ELSE IF IsFin(y) THEN InfOf(Sgn(x) * (IF y < 0 THEN 0 - 1 ELSE 1))
      ELSE NaN

Abs(a) ==
  LET x == ToNum(a)
  IN  IF x = NaN THEN NaN ELSE IF x = NegInf THEN PosInf ELSE IF x < 0 THEN 0 - x ELSE x

\* relational operators: every comparison with NaN is false
\* a < b that holds when an operand is NaN
Lt_unordered(a, b) == ToNum(a) = NaN \/ ToNum(b) = NaN \/ ToNum(a) < ToNum(b)

Lt(a, b) == LET x == ToNum(a)
                y == ToNum(b)
            IN  x # NaN /\ y # NaN /\ x < y

Le(a, b) == LET x == ToNum(a)
                y == ToNum(b)
            IN  x # NaN /\ y # NaN /\ x <= y

\* a >= b in place of a > b
Gt_orEqual(a, b) == Le(b, a)

Gt(a, b) == Lt(b, a)

Ge(a, b) == Le(b, a)

\* a[i] of a JavaScript array
At(a, i) == IF i >= 0 /\ i < Len(a) THEN a[i + 1] ELSE Undef

\* The for-loop  for (i = lo; i <= hi; i++) acc = Step(acc, i).  The range is
\* halved and the first half is evaluated before the second (acc # acc reads
\* the accumulated value on entry), which keeps the evaluation depth
\* logarithmic in the number of iterations.
RECURSIVE Loop(_, _, _, _)
Loop(Step(_, _), lo, hi, acc) ==
  IF acc # acc \/ lo > hi THEN acc
  ELSE IF lo = hi THEN Step(acc, lo)
  ELSE Loop(Step, (lo + hi) \div 2 + 1, hi, Loop(Step, lo, (lo + hi) \div 2, acc))

\* const v = ...; e: the declared value v is computed before e is
Then(v, e) == IF v = v THEN e ELSE e

\* the array <<F(1), ..., F(n)>>, built element by element
Build(n, F(_)) ==
  LET Step(acc, i) == Append(acc, F(i))
  IN  Loop(Step, 1, n, <<>>)

\* a.slice(from) .. end, 0-based from
SliceFrom(a, from) == IF from >= Len(a) THEN <<>> ELSE SubSeq(a, from + 1, Len(a))

-----------------------------------------------------------------------------
(* Candles: the array [openTime, open, high, low, close] of the exchange   *)

\* an array-valued argument: null, or the array rows
Arr(rows) == [isNull |-> FALSE, rows |-> rows]

NullArr == [isNull |-> TRUE, rows |-> <<>>]

parseTime(candle) == candle[1]

parseHigh(candle) == candle[3]

parseLow(candle) == candle[4]

parseClose(candle) == candle[5]

\* Signal with timestamp: now in place of the candle's openTime
Signal_stamped(type, price, timestamp, created, indicator, strength) ==
  [type |-> type, price |-> price, timestamp |-> created, created_at |-> created,
   indicator |-> indicator, strength |-> strength, meta |-> <<>>]

Signal(type, price, timestamp, created, indicator, strength) ==
  [type |-> type, price |-> price, timestamp |-> timestamp, created_at |-> created,
   indicator |-> indicator, strength |-> strength, meta |-> <<>>]

-----------------------------------------------------------------------------
(* server/signals/rsi.js                                                   *)

Eps == Scale \div 1000

\* avg.push((avg[avg.length-1] * (period-1) + vals[i]) / period), i = period ..
WilderLoop(vals, period, first) ==
  LET Step(avg, i) ==
        Append(avg, Div(Add(Mul(avg[Len(avg)], N(period - 1)), At(vals, i)), N(period)))
  IN  Loop(Step, period, Len(vals) - 1, <<first>>)

SumFirst(a, period) ==
  LET Step(sum, i) == Add(sum, At(a, i))
  IN  Loop(Step, 0, period - 1, 0)

\* lines 47-51: the RSI series of the two averaged series
rsiOfAverages(avgGain, avgLoss) ==
  Then(<<avgGain, avgLoss>>,
    Build(Len(avgGain), LAMBDA i :
      LET rs == Div(avgGain[i], IF avgLoss[i] = 0 THEN Eps ELSE avgLoss[i])
      IN  Sub(N(100), Div(N(100), Add(N(1), rs)))))

\* lines 25-44: Wilder's averages of the gains and of the losses
rsiOfGainsLosses(gains, losses, period) ==
  Then(<<gains, losses>>,
    rsiOfAverages(WilderLoop(gains, period, Div(SumFirst(gains, period), N(period))),
                  WilderLoop(losses, period, Div(SumFirst(losses, period), N(period)))))

\* lines 22-23: gains and losses of the changes
rsiOfChanges(changes, period) ==
  Then(changes,
    rsiOfGainsLosses(
      Build(Len(changes), LAMBDA i : IF Gt(changes[i], 0) THEN changes[i] ELSE 0),
      Build(Len(changes), LAMBDA i : IF Lt(changes[i], 0) THEN Neg(changes[i]) ELSE 0),
      period))

\* lines 17-53 of calculateRSI, over the extracted value series
WilderRSI(values, period) ==
  rsiOfChanges(Build(Len(values) - 1, LAMBDA i : Sub(values[i + 1], values[i])), period)

rsi_calculateRSI(data, period) ==
  WilderRSI(Build(Len(data), LAMBDA i : parseClose(data[i])), period)

\* first-value-seeded EMA (the same code in rsi.js:62-71 and wavetrend.js)
SeedEMA(prices, period) ==
  LET k == Div(N(2), N(period + 1))
      Step(ema, i) == Append(ema, Add(Mul(At(prices, i), k), Mul(At(ema, i - 1), Sub(N(1), k))))
  IN  Loop(Step, 1, Len(prices) - 1, <<At(prices, 0)>>)

rsi_calculateEMA(prices, period) == SeedEMA(prices, period)

\* returns <<>> for null, else <<[type, strength]>>
checkDivergence(prices, rsi, lookback) ==
  IF Len(prices) < lookback + 1 \/ Len(rsi) < lookback + 1 THEN <<>>
  ELSE LET currentIndex == Len(prices) - 1
       IN  IF /\ Lt(At(prices, currentIndex), At(prices, currentIndex - lookback))
              /\ Gt(At(rsi, Len(rsi) - 1), At(rsi, Len(rsi) - 1 - lookback))
           THEN <<[type |-> "bullish",
                   strength |-> IF Lt(At(rsi, Len(rsi) - 1), N(40)) THEN "strong" ELSE "medium"]>>
           ELSE IF /\ Gt(At(prices, currentIndex), At(prices, currentIndex - lookback))
                   /\ Lt(At(rsi, Len(rsi) - 1), At(rsi, Len(rsi) - 1 - lookback))
           THEN <<[type |-> "bearish",
                   strength |-> IF Gt(At(rsi, Len(rsi) - 1), N(60)) THEN "strong" ELSE "medium"]>>
           ELSE <<>>

\* Math.max(30, 14): the first candle scanned
rsi_LoopStart == 30

\* the length guard taking the loop's start index
rsi_MinLen_loop == rsi_LoopStart

rsi_MinLen == 50

\* the RSI period
rsi_Period == 14

\* rsiIndex = i - period
rsi_Offset_period == rsi_Period

\* rsiIndex = i - 15
rsi_Offset == 15

\* lines 135-205: the scan of the candles from index 30 on
rsi_scan(kl, closes, rsi14, rsi14Ema, t) ==
  Then(<<closes, rsi14Ema>>,
    LET at(i) ==
          LET candle == kl[i + 1]
              timestamp == parseTime(candle)
              price == parseClose(candle)
              rsiIndex == i - rsi_Offset
              cur == At(rsi14, rsiIndex)
              prev == At(rsi14, rsiIndex - 1)
              divergence == checkDivergence(SubSeq(closes, 1, i + 1), rsi14, 5)
          IN  IF rsiIndex < 0 THEN <<>>
              ELSE
                (IF Lt(cur, N(30)) /\ Lt(prev, N(30)) /\ Gt(cur, prev)
                 THEN <<Signal("buy", price, timestamp, t, "rsi-oversold",
                               IF Lt(cur, N(20)) THEN "strong" ELSE "medium")>>
                 ELSE <<>>)
                \o
                (IF Gt(cur, N(70)) /\ Gt(prev, N(70)) /\ Lt(cur, prev)
                 THEN <<Signal("sell", price, timestamp, t, "rsi-overbought",
                               IF Gt(cur, N(80)) THEN "strong" ELSE "medium")>>
                 ELSE <<>>)
                \o
                (IF /\ Lt(prev, At(rsi14Ema, rsiIndex - 1))
                    /\ Gt(cur, At(rsi14Ema, rsiIndex))
                    /\ Lt(cur, N(50))
                 THEN <<Signal("buy", price, timestamp, t, "rsi-crossover", "medium")>>
                 ELSE <<>>)
                \o
                (IF /\ Gt(prev, At(rsi14Ema, rsiIndex - 1))
                    /\ Lt(cur, At(rsi14Ema, rsiIndex))
                    /\ Gt(cur, N(50))
                 THEN <<Signal("sell", price, timestamp, t, "rsi-crossover", "medium")>>
                 ELSE <<>>)
                \o
                (IF divergence # <<>>
                 THEN <<Signal(IF divergence[1].type = "bullish" THEN "buy" ELSE "sell",
                               price, timestamp, t, "rsi-divergence", divergence[1].strength)>>
                 ELSE <<>>)
        Step(signals, i) == signals \o at(i)
    IN  Loop(Step, rsi_LoopStart, Len(kl) - 1, <<>>))

\* line 132: the EMA of the RSI series
rsi_withRsi(kl, closes, rsi14, t) ==
  Then(rsi14,
    rsi_scan(kl, closes, rsi14, rsi_calculateEMA(rsi14, 9), t))

rsi_detectSignals(klinesArg, t) ==
  IF klinesArg.isNull \/ Len(klinesArg.rows) < rsi_MinLen THEN <<>>
  ELSE rsi_withRsi(klinesArg.rows,
                   Build(Len(klinesArg.rows), LAMBDA i : parseClose(klinesArg.rows[i])),
                   rsi_calculateRSI(klinesArg.rows, rsi_Period), t)

-----------------------------------------------------------------------------
(* server/signals/wavetrend.js (the second half of index.js in src/)       *)

wt_calculateEMA(prices, period) == SeedEMA(prices, period)

hlc3Of(candle) == Div(Add(Add(parseHigh(candle), parseLow(candle)), parseClose(candle)), N(3))

\* 0.015
CiFactor == 15 * (Scale \div 1000)

\* lines 235-246: wt2, the 3-period SMA of wt1; returns <<wt1, wt2>>
wtOfWt1(wt1) ==
  Then(wt1,
    <<wt1,
      Build(Len(wt1), LAMBDA i :
        IF i - 1 < 2 THEN wt1[i]
        ELSE Div(Add(Add(wt1[i], wt1[i - 1]), wt1[i - 2]), N(3)))>>)

\* lines 230-234: ci and wt1
wtOfD(hlc3, esa, d, avgLength) ==
  Then(d,
    wtOfWt1(wt_calculateEMA(
              Build(Len(hlc3), LAMBDA i :
                Div(Sub(hlc3[i], At(esa, i - 1)), Mul(CiFactor, At(d, i - 1)))),
              avgLength)))

\* lines 225-229: d
wtOfEsa(hlc3, esa, channelLength, avgLength) ==
  Then(esa,
    wtOfD(hlc3, esa,
          wt_calculateEMA(Build(Len(hlc3), LAMBDA i : Abs(Sub(hlc3[i], At(esa, i - 1)))),
                          channelLength),
          avgLength))

\* line 224: esa
wtOfHlc3(hlc3, channelLength, avgLength) ==
  Then(hlc3,
    wtOfEsa(hlc3, wt_calculateEMA(hlc3, channelLength), channelLength, avgLength))

\* returns <<wt1, wt2>>
calculateWaveTrend(data, channelLength, avgLength) ==
  wtOfHlc3(Build(Len(data), LAMBDA i : hlc3Of(data[i])), channelLength, avgLength)

wt_calculateRSI(data, period) ==
  WilderRSI(Build(Len(data), LAMBDA i : hlc3Of(data[i])), period)

\* Array.prototype.sort((a, b) => a.timestamp - b.timestamp): stable
SortByTimestamp(signals) ==
  LET Step(sorted, i) ==
        LET x == signals[i]
            k == Cardinality({j \in 1..Len(sorted) : ~Lt(x.timestamp, sorted[j].timestamp)})
        IN  SubSeq(sorted, 1, k) \o <<x>> \o SubSeq(sorted, k + 1, Len(sorted))
  IN  Loop(Step, 1, Len(signals), <<>>)

DefaultPeriodMs == 300000

\* timestamps are integer milliseconds; Math.round(totalDiff / count)
getCandlePeriodMs(klinesArg) ==
  IF klinesArg.isNull \/ Len(klinesArg.rows) < 2 THEN DefaultPeriodMs
  ELSE LET kl == klinesArg.rows
           upper == IF Len(kl) < 10 THEN Len(kl) ELSE 10
           Step(acc, i) ==
             LET diff == Sub(parseTime(kl[i + 1]), parseTime(kl[i]))
             IN  IF Gt(diff, 0) THEN [totalDiff |-> acc.totalDiff + diff, count |-> acc.count + 1]
                 ELSE acc
           r == Loop(Step, 1, upper - 1, [totalDiff |-> 0, count |-> 0])
       IN  IF r.count > 0 THEN RDiv(r.totalDiff, r.count) ELSE DefaultPeriodMs

wt_getCandlePeriodMs(klinesArg) == getCandlePeriodMs(klinesArg)

ClusterSpan == 5

\* the for-loop of lines 420-442 / 450-472: i += 2 after a hit
wt_clusterScan(sorted, type, klinesArg, t) ==
  LET Step(acc, i) ==
        IF i < acc.next THEN acc
        ELSE LET signal1 == sorted[i + 1]
                 signal3 == sorted[i + 3]
                 timeDiff == Sub(signal3.timestamp, signal1.timestamp)
                 candlePeriod == wt_getCandlePeriodMs(klinesArg)
             IN  IF Le(timeDiff, candlePeriod * ClusterSpan)
                 THEN [out |-> Append(acc.out,
                                 Signal(type, signal3.price, signal3.timestamp, t,
                                        "cluster", "strong")),
                       next |-> i + 3]
                 ELSE acc
  IN  Loop(Step, 0, Len(sorted) - 3, [out |-> <<>>, next |-> 0]).out

wt_detectClusterSignals(signals, klinesArg, t) ==
  IF Len(signals) < 2 THEN <<>>
  ELSE LET buySignals == SelectSeq(signals, LAMBDA s : s.type = "buy")
           sellSignals == SelectSeq(signals, LAMBDA s : s.type = "sell")
       IN  (IF Len(buySignals) >= 3
            THEN wt_clusterScan(SortByTimestamp(buySignals), "buy", klinesArg, t) ELSE <<>>)
           \o
           (IF Len(sellSignals) >= 3
            THEN wt_clusterScan(SortByTimestamp(sellSignals), "sell", klinesArg, t) ELSE <<>>)

wt_MinLen == 50

wt_LoopStart == 21

wt_Offset == 3

wt_RsiOffset == 22

\* lines 395-396: the indicator signals followed by their clusters
wt_withClusters(signals, klinesArg, t) ==
  Then(signals,
    signals \o wt_detectClusterSignals(signals, klinesArg, t))

\* lines 322-393: the scan of the candles from index 21 on
wt_scan(kl, wt1, wt2, rsi, rsiEma, klinesArg, t) ==
  Then(<<wt1, wt2, rsiEma>>,
    LET at(i) ==
          LET candle == kl[i + 1]
              timestamp == parseTime(candle)
              price == parseClose(candle)
              wtIndex == i - wt_Offset
              rsiIndex == i - wt_RsiOffset
              isOversold == /\ rsiIndex >= 0
                            /\ Lt(At(rsi, rsiIndex), N(30))
                            /\ Lt(At(rsi, rsiIndex), At(rsiEma, rsiIndex))
              isOverbought == /\ rsiIndex >= 0
                              /\ Gt(At(rsi, rsiIndex), N(70))
                              /\ Gt(At(rsi, rsiIndex), At(rsiEma, rsiIndex))
              crossUp == /\ Le(At(wt1, wtIndex - 1), At(wt2, wtIndex - 1))
                         /\ Gt(At(wt1, wtIndex), At(wt2, wtIndex))
              crossDown == /\ Ge(At(wt1, wtIndex - 1), At(wt2, wtIndex - 1))
                           /\ Lt(At(wt1, wtIndex), At(wt2, wtIndex))
          IN  IF wtIndex < 0 \/ rsiIndex < 0 THEN <<>>
              ELSE
                (IF crossUp
                 THEN <<Signal("buy", price, timestamp, t, "wavetrend-crossover", "medium")>>
                 ELSE <<>>)
                \o
                (IF crossUp /\ Le(At(wt2, wtIndex), N(0 - 40))
                 THEN <<Signal("buy", price, timestamp, t,
                               IF isOversold THEN "wavetrend+rsi" ELSE "wavetrend",
                               IF isOversold THEN "strong" ELSE "medium")>>
                 ELSE <<>>)
                \o
                (IF crossDown
                 THEN <<Signal("sell", price, timestamp, t, "wavetrend-crossover", "medium")>>
                 ELSE <<>>)
                \o
                (IF crossDown /\ Ge(At(wt2, wtIndex), N(40))
                 THEN <<Signal("sell", price, timestamp, t,
                               IF isOverbought THEN "wavetrend+rsi" ELSE "wavetrend",
                               IF isOverbought THEN "strong" ELSE "medium")>>
                 ELSE <<>>)
        Step(acc, i) == acc \o at(i)
    IN  wt_withClusters(Loop(Step, wt_LoopStart, Len(kl) - 1, <<>>), klinesArg, t))

\* lines 315-319: the two series of the WaveTrend and the EMA of the RSI
wt_withIndicators(kl, wt, rsi, klinesArg, t) ==
  Then(<<wt, rsi>>,
    wt_scan(kl, wt[1], wt[2], rsi, wt_calculateEMA(rsi, 13), klinesArg, t))

wt_detectSignals(klinesArg, t) ==
  IF klinesArg.isNull \/ Len(klinesArg.rows) < wt_MinLen THEN <<>>
  ELSE wt_withIndicators(klinesArg.rows, calculateWaveTrend(klinesArg.rows, 13, 21),
                         wt_calculateRSI(klinesArg.rows, 21), klinesArg, t)

-----------------------------------------------------------------------------
(* server/signals/ma_crossover.js                                          *)

calculateSMA(prices, period) ==
  Build(Len(prices), LAMBDA n :
    LET i == n - 1
        Step(sum, j) == Add(sum, At(prices, i - j))
    IN  IF i < period - 1 THEN Null
        ELSE Div(Loop(Step, 0, period - 1, 0), N(period)))

\* SMA-seeded EMA, null before the seed index
ma_calculateEMA(prices, period) ==
  IF Len(prices) < period THEN Build(Len(prices), LAMBDA n : Null)
  ELSE LET k == Div(N(2), N(period + 1))
           Sum(sum, j) == Add(sum, At(prices, j))
           seed == Div(Loop(Sum, 0, period - 1, 0), N(period))
           Step(res, i) ==
             Append(res, Add(Mul(At(prices, i), k), Mul(res[Len(res)], Sub(N(1), k))))
       IN  Loop(Step, period, Len(prices) - 1,
                Append(Build(period - 1, LAMBDA n : Null), seed))

ma_MinLen == 100

ma_LoopStart == 200

\* i > 200 with the loop's start index - 1 in place of 200
ma_SmaGuard_defined == ma_LoopStart - 1

\* the golden-cross and death-cross tests require i > 200
ma_SmaGuard == 200

\* lines 76-166: the scan of the candles from index 200 on
ma_scan(kl, sma50, sma200, ema20, ema50, t) ==
  Then(<<sma50, sma200, ema20, ema50>>,
    LET at(i) ==
          LET candle == kl[i + 1]
              timestamp == parseTime(candle)
              price == parseClose(candle)
              prevClose == parseClose(kl[i])
          IN  (IF i > ma_SmaGuard /\ Le(At(sma50, i - 1), At(sma200, i - 1))
                  /\ Gt(At(sma50, i), At(sma200, i))
               THEN <<Signal("buy", price, timestamp, t, "golden-cross", "strong")>>
               ELSE <<>>)
              \o
              (IF i > ma_SmaGuard /\ Ge(At(sma50, i - 1), At(sma200, i - 1))
                  /\ Lt(At(sma50, i), At(sma200, i))
               THEN <<Signal("sell", price, timestamp, t, "death-cross", "strong")>>
               ELSE <<>>)
              \o
              (IF i > 50 /\ Le(At(ema20, i - 1), At(ema50, i - 1))
                  /\ Gt(At(ema20, i), At(ema50, i))
               THEN <<Signal("buy", price, timestamp, t, "ema-crossover", "medium")>>
               ELSE <<>>)
              \o
              (IF i > 50 /\ Ge(At(ema20, i - 1), At(ema50, i - 1))
                  /\ Lt(At(ema20, i), At(ema50, i))
               THEN <<Signal("sell", price, timestamp, t, "ema-crossover", "medium")>>
               ELSE <<>>)
              \o
              (IF i > 20 /\ Le(prevClose, At(ema20, i - 1)) /\ Gt(price, At(ema20, i))
               THEN <<Signal("buy", price, timestamp, t, "price-ema-cross", "weak")>>
               ELSE <<>>)
              \o
              (IF i > 20 /\ Ge(prevClose, At(ema20, i - 1)) /\ Lt(price, At(ema20, i))
               THEN <<Signal("sell", price, timestamp, t, "price-ema-cross", "weak")>>
               ELSE <<>>)
        Step(acc, i) == acc \o at(i)
    IN  Loop(Step, ma_LoopStart, Len(kl) - 1, <<>>))

\* lines 70-73: the four moving averages of the closes
ma_withCloses(kl, closes, t) ==
  Then(closes,
    ma_scan(kl, calculateSMA(closes, 50), calculateSMA(closes, 200),
            ma_calculateEMA(closes, 20), ma_calculateEMA(closes, 50), t))

ma_detectSignals(klinesArg, t) ==
  IF klinesArg.isNull \/ Len(klinesArg.rows) < ma_MinLen THEN <<>>
  ELSE ma_withCloses(klinesArg.rows,
                     Build(Len(klinesArg.rows), LAMBDA i : parseClose(klinesArg.rows[i])), t)

-----------------------------------------------------------------------------
(* server/signals/breakouts.js                                             *)

findPivotPoints(kl, lookback) ==
  IF Len(kl) < 2 * lookback + 1 THEN <<>>
  ELSE
  LET at(i) ==
        LET currentHigh == parseHigh(kl[i + 1])
            currentLow == parseLow(kl[i + 1])
            window == (i - lookback)..(i + lookback) \ {i}
            isHighPivot == \A j \in window : ~Gt(parseHigh(kl[j + 1]), currentHigh)
            isLowPivot == \A j \in window : ~Lt(parseLow(kl[j + 1]), currentLow)
        IN  (IF isHighPivot
             THEN <<[type |-> "resistance", level |-> currentHigh, index |-> i,
                     timestamp |-> parseTime(kl[i + 1])]>>
             ELSE <<>>)
            \o
            (IF isLowPivot
             THEN <<[type |-> "support", level |-> currentLow, index |-> i,
                     timestamp |-> parseTime(kl[i + 1])]>>
             ELSE <<>>)
      Step(pivots, i) == pivots \o at(i)
  IN  Loop(Step, lookback, Len(kl) - lookback - 1, <<>>)

\* [...pivots].sort((a, b) => a.level - b.level): stable
SortByLevel(pivots) ==
  LET Step(sorted, i) ==
        LET x == pivots[i]
            k == Cardinality({j \in 1..Len(sorted) : ~Lt(x.level, sorted[j].level)})
        IN  SubSeq(sorted, 1, k) \o <<x>> \o SubSeq(sorted, k + 1, Len(sorted))
  IN  Loop(Step, 1, Len(pivots), <<>>)

\* 0.01
Tolerance_onePercent == 10 * (Scale \div 1000)

\* 0.005
Tolerance == 5 * (Scale \div 1000)

\* lines 81-106: the groups of sorted pivots
pivotGroups(sortedPivots, tolerance) ==
  LET Step(acc, i) ==
        LET currentPivot == sortedPivots[i + 1]
            lastPivot == acc.currentGroup[Len(acc.currentGroup)]
            percentDiff == Div(Abs(Sub(currentPivot.level, lastPivot.level)), lastPivot.level)
        IN  IF Le(percentDiff, tolerance)
            THEN [groups |-> acc.groups, currentGroup |-> Append(acc.currentGroup, currentPivot)]
            ELSE [groups |-> Append(acc.groups, acc.currentGroup),
                  currentGroup |-> <<currentPivot>>]
      r == Loop(Step, 1, Len(sortedPivots) - 1,
                [groups |-> <<>>, currentGroup |-> <<sortedPivots[1]>>])
  IN  Append(r.groups, r.currentGroup)

\* lines 109-121: the zone of one group
zoneOfGroup(group) ==
  LET Sum(sum, j) == Add(sum, group[j].level)
      avgLevel == Div(Loop(Sum, 1, Len(group), 0), N(Len(group)))
      supports == Len(SelectSeq(group, LAMBDA p : p.type = "support"))
      third == Div(N(Len(group)), N(3))
  IN  [type |-> IF 2 * supports > Len(group) THEN "support" ELSE "resistance",
       level |-> avgLevel,
       strength |-> IF N(1) < third THEN N(1) ELSE third,
       count |-> Len(group),
       pivots |-> group]

\* line 109: groups.map(...)
zonesOfGroups(groups) ==
  Then(groups, Build(Len(groups), LAMBDA g : zoneOfGroup(groups[g])))

groupPivotLevels(pivots, tolerance) ==
  IF Len(pivots) = 0 THEN <<>>
  ELSE zonesOfGroups(pivotGroups(SortByLevel(pivots), tolerance))

bo_MinLen == 50

Lookback == 5

\* the last candles as many as a pivot's window, 2 * lookback + 1
RecentCandles_window == 2 * Lookback + 1

RecentCandles == 10

\* 1.005 and 0.995
BreakUp == Scale + 5 * (Scale \div 1000)

BreakDown == Scale - 5 * (Scale \div 1000)

\* lines 149-194: the scan of the recent candles against the strong zones
bo_scan(strongZones, recentCandles, t) ==
  Then(<<strongZones, recentCandles>>,
    LET at(i) ==
          LET prevClose == parseClose(recentCandles[i])
              currentCandle == recentCandles[i + 1]
              currentClose == parseClose(currentCandle)
              timestamp == parseTime(currentCandle)
              forZone(acc, z) ==
                LET zone == strongZones[z]
                IN  acc
                    \o
                    (IF /\ zone.type = "resistance"
                        /\ Lt(prevClose, zone.level)
                        /\ Gt(currentClose, Mul(zone.level, BreakUp))
                     THEN <<Signal("buy", currentClose, timestamp, t, "resistance-breakout",
                                   IF zone.count >= 3 THEN "strong" ELSE "medium")>>
                     ELSE <<>>)
                    \o
                    (IF /\ zone.type = "support"
                        /\ Gt(prevClose, zone.level)
                        /\ Lt(currentClose, Mul(zone.level, BreakDown))
                     THEN <<Signal("sell", currentClose, timestamp, t, "support-breakout",
                                   IF zone.count >= 3 THEN "strong" ELSE "medium")>>
                     ELSE <<>>)
          IN  Loop(forZone, 1, Len(strongZones), <<>>)
        Step(acc, i) == acc \o at(i)
    IN  Loop(Step, 1, Len(recentCandles) - 1, <<>>))

\* lines 144-147: the zones with 2 or more pivots, the last 10 candles
bo_withZones(kl, zones, t) ==
  Then(zones,
    bo_scan(SelectSeq(zones, LAMBDA zone : zone.count >= 2),
            SliceFrom(kl, Len(kl) - RecentCandles), t))

bo_detectSignals(klinesArg, t) ==
  IF klinesArg.isNull \/ Len(klinesArg.rows) < bo_MinLen THEN <<>>
  ELSE bo_withZones(klinesArg.rows,
                    groupPivotLevels(findPivotPoints(klinesArg.rows, Lookback), Tolerance), t)

-----------------------------------------------------------------------------
(* server/signals/index.js: the aggregator                                 *)

\* lines 133-159
groupSignalsByTime(signals, maxTimeDiff) ==
  IF Len(signals) = 0 THEN <<>>
  ELSE LET Step(acc, i) ==
             LET currentSignal == signals[i + 1]
                 lastSignal == acc.currentGroup[Len(acc.currentGroup)]
             IN  IF Le(Sub(currentSignal.timestamp, lastSignal.timestamp), maxTimeDiff)
                 THEN [groups |-> acc.groups,
                       currentGroup |-> Append(acc.currentGroup, currentSignal)]
                 ELSE [groups |-> Append(acc.groups, acc.currentGroup),
                       currentGroup |-> <<currentSignal>>]
           r == Loop(Step, 1, Len(signals) - 1,
                     [groups |-> <<>>, currentGroup |-> <<signals[1]>>])
       IN  Append(r.groups, r.currentGroup)

\* Unique without the Set: duplicates kept
Unique_all(a) == a

\* [...new Set(a)]: first occurrences, in order
Unique(a) ==
  LET Step(acc, i) == IF \E j \in 1..Len(acc) : acc[j] = a[i] THEN acc ELSE Append(acc, a[i])
  IN  Loop(Step, 1, Len(a), <<>>)

MinCluster == 3

\* clustersOfGroups listing s.type in place of s.indicator
clustersOfGroups_types(groups, type, t) ==
  LET Step(acc, g) ==
        LET group == groups[g]
            latestSignal == group[Len(group)]
            indicators == Unique(Build(Len(group), LAMBDA j : group[j].type))
        IN  IF Len(group) >= MinCluster
            THEN Append(acc, [type |-> type, price |-> latestSignal.price,
                              timestamp |-> latestSignal.timestamp, created_at |-> t,
                              indicator |-> "cluster", strength |-> "strong",
                              meta |-> <<[count |-> Len(group), indicators |-> indicators]>>])
            ELSE acc
  IN  Loop(Step, 1, Len(groups), <<>>)

\* clustersOfGroups with latestSignal = group[0]
clustersOfGroups_first(groups, type, t) ==
  LET Step(acc, g) ==
        LET group == groups[g]
            latestSignal == group[1]
            indicators == Unique(Build(Len(group), LAMBDA j : group[j].indicator))
        IN  IF Len(group) >= MinCluster
            THEN Append(acc, [type |-> type, price |-> latestSignal.price,
                              timestamp |-> latestSignal.timestamp, created_at |-> t,
                              indicator |-> "cluster", strength |-> "strong",
                              meta |-> <<[count |-> Len(group), indicators |-> indicators]>>])
            ELSE acc
  IN  Loop(Step, 1, Len(groups), <<>>)

\* lines 67-88 / 100-121: one cluster signal per group of 3 or more
clustersOfGroups(groups, type, t) ==
  LET Step(acc, g) ==
        LET group == groups[g]
            latestSignal == group[Len(group)]
            indicators == Unique(Build(Len(group), LAMBDA j : group[j].indicator))
        IN  IF Len(group) >= MinCluster
            THEN Append(acc, [type |-> type, price |-> latestSignal.price,
                              timestamp |-> latestSignal.timestamp, created_at |-> t,
                              indicator |-> "cluster", strength |-> "strong",
                              meta |-> <<[count |-> Len(group), indicators |-> indicators]>>])
            ELSE acc
  IN  Loop(Step, 1, Len(groups), <<>>)

\* directionGroups without the filter on s.type
directionGroups_all(signals, type, klinesArg) ==
  LET sameType == signals
      candlePeriod == getCandlePeriodMs(klinesArg)
  IN  IF Len(signals) < 2 \/ Len(sameType) < 3 THEN <<>>
      ELSE groupSignalsByTime(SortByTimestamp(sameType), candlePeriod * ClusterSpan)

\* lines 52-64 / 92-97: the time groups of one direction
directionGroups(signals, type, klinesArg) ==
  LET sameType == SelectSeq(signals, LAMBDA s : s.type = type)
      candlePeriod == getCandlePeriodMs(klinesArg)
  IN  IF Len(signals) < 2 \/ Len(sameType) < 3 THEN <<>>
      ELSE groupSignalsByTime(SortByTimestamp(sameType), candlePeriod * ClusterSpan)

NoGroups == [buy |-> <<>>, sell |-> <<>>]

\* the locals buyGroups / sellGroups of detectClusterSignals
clusterGroups(signals, klinesArg) ==
  [buy |-> directionGroups(signals, "buy", klinesArg),
   sell |-> directionGroups(signals, "sell", klinesArg)]

\* lines 67-88 and 100-121: buy clusters, then sell clusters
clustersOf(g, t) ==
  Then(g, clustersOfGroups(g.buy, "buy", t) \o clustersOfGroups(g.sell, "sell", t))

detectClusterSignals(signals, klinesArg, t) ==
  IF Len(signals) < 2 THEN <<>>
  ELSE clustersOf(clusterGroups(signals, klinesArg), t)

MinLen == 50

\* lines 20-31: the concatenated detector outputs
collectSignals(klinesArg, t) ==
  wt_detectSignals(klinesArg, t) \o rsi_detectSignals(klinesArg, t)
    \o ma_detectSignals(klinesArg, t) \o bo_detectSignals(klinesArg, t)

\* the signals array if sort were called on the argument itself
signalsAfterCall_sorted(signals) == SortByTimestamp(signals)

\* lines 52-53, 61, 92-94: the array passed as signals once detectClusterSignals
\* has returned; filter returns new arrays and sort orders those in place
signalsAfterCall(signals) == signals

\* lines 26-36: allSignals, its clusters, and the returned list; the spread of
\* allSignals at line 36 reads the array after detectClusterSignals has run
aggregate(allSignals, klinesArg, t) ==
  Then(allSignals,
    [allSignals |-> signalsAfterCall(allSignals),
     groups |-> clusterGroups(allSignals, klinesArg),
     out |-> signalsAfterCall(allSignals) \o detectClusterSignals(allSignals, klinesArg, t)])

\* lines 14-37 with the locals kept: allSignals, the aggregator's groups, and
\* out, the returned [...allSignals, ...clusterSignals]
detectAllSignalsRun(klinesArg, t) ==
  IF klinesArg.isNull \/ Len(klinesArg.rows) < MinLen
  THEN [allSignals |-> <<>>, groups |-> NoGroups, out |-> <<>>]
  ELSE aggregate(collectSignals(klinesArg, t), klinesArg, t)

detectAllSignals(klinesArg, t) == detectAllSignalsRun(klinesArg, t).out

-----------------------------------------------------------------------------
(* src/utils/signals.js: live mode                                         *)

\* x || 0  and the truth value of a Number
Truthy(x) == x # Undef /\ x # Null /\ x # NaN /\ x # 0

OrZero(x) == IF Truthy(x) THEN x ELSE 0

\* the EMA seeded with arr[0], with no warm-up gap
ema_firstValue(arr, period) == SeedEMA(arr, period)

\* SMA-seeded EMA; the entries before index period-1 are holes (undefined)
ema(arr, period) ==
  IF Len(arr) < period THEN <<>>
  ELSE LET k == Div(N(2), N(period + 1))
           Sum(sum, j) == Add(sum, At(arr, j))
           seed == Div(Loop(Sum, 0, period - 1, 0), N(period))
           Step(emaArr, i) ==
             Append(emaArr, Add(Mul(At(arr, i), k), Mul(emaArr[Len(emaArr)], Sub(N(1), k))))
       IN  Loop(Step, period, Len(arr) - 1,
                Append(Build(period - 1, LAMBDA n : Undef), seed))

RsiValue(avgGain, avgLoss) ==
  IF avgLoss = 0 THEN N(100)
  ELSE Sub(N(100), Div(N(100), Add(N(1), Div(avgGain, avgLoss))))

rsi(arr, period) ==
  IF Len(arr) < period + 1 THEN <<>>
  ELSE LET First(acc, i) ==
             LET diff == Sub(At(arr, i), At(arr, i - 1))
             IN  IF Ge(diff, 0) THEN [gains |-> Add(acc.gains, diff), losses |-> acc.losses]
                 ELSE [gains |-> acc.gains, losses |-> Sub(acc.losses, diff)]
           sums == Loop(First, 1, period, [gains |-> 0, losses |-> 0])
           avgGain0 == Div(sums.gains, N(period))
           avgLoss0 == Div(sums.losses, N(period))
           Step(acc, i) ==
             LET diff == Sub(At(arr, i), At(arr, i - 1))
                 g == IF Ge(diff, 0)
                      THEN Div(Add(Mul(acc.avgGain, N(period - 1)), diff), N(period))
                      ELSE Div(Mul(acc.avgGain, N(period - 1)), N(period))
                 l == IF Ge(diff, 0)
                      THEN Div(Mul(acc.avgLoss, N(period - 1)), N(period))
                      ELSE Div(Sub(Mul(acc.avgLoss, N(period - 1)), diff), N(period))
             IN  [avgGain |-> g, avgLoss |-> l, rsiArr |-> Append(acc.rsiArr, RsiValue(g, l))]
       IN  Loop(Step, period + 1, Len(arr) - 1,
                [avgGain |-> avgGain0, avgLoss |-> avgLoss0,
                 rsiArr |-> Append(Build(period, LAMBDA n : Undef),
                                   RsiValue(avgGain0, avgLoss0))]).rsiArr

\* lines 56-61: wt2, the 3-period average of wt1
wavetrendOfWt1(wt1) ==
  Then(wt1,
    [wt1 |-> wt1,
     wt2 |-> Build(Len(wt1), LAMBDA i :
               IF i - 1 < 2 THEN Undef
               ELSE Div(Add(Add(wt1[i], wt1[i - 1]), wt1[i - 2]), N(3)))])

\* lines 54-55: ci and wt1
wavetrendOfDe(hlc3, esa, de, avgLen) ==
  Then(de,
    wavetrendOfWt1(ema(Build(Len(hlc3), LAMBDA i :
                         IF Truthy(At(de, i - 1))
                         THEN Div(Sub(hlc3[i], OrZero(At(esa, i - 1))),
                                  Mul(CiFactor, At(de, i - 1)))
                         ELSE 0),
                       avgLen)))

\* lines 52-53: d and de
wavetrendOfEsa(hlc3, esa, chlLen, avgLen) ==
  Then(esa,
    wavetrendOfDe(hlc3, esa,
                  ema(Build(Len(hlc3), LAMBDA i : Abs(Sub(hlc3[i], OrZero(At(esa, i - 1))))),
                      chlLen),
                  avgLen))

\* line 51: esa
wavetrendOfHlc3(hlc3, chlLen, avgLen) ==
  Then(hlc3,
    wavetrendOfEsa(hlc3, ema(hlc3, chlLen), chlLen, avgLen))

wavetrend(closes, highs, lows, chlLen, avgLen) ==
  IF Len(closes) < (IF chlLen > avgLen THEN chlLen ELSE avgLen)
  THEN [wt1 |-> <<>>, wt2 |-> <<>>]
  ELSE wavetrendOfHlc3(
         Build(Len(closes), LAMBDA i : Div(Add(Add(highs[i], lows[i]), closes[i]), N(3))),
         chlLen, avgLen)

NoSignal == "null"

Entry(signal, triggeredAt, pctChange, idx) ==
  [signal |-> signal, triggeredAt |-> triggeredAt, pctChange |-> pctChange, idx |-> idx,
   indicators |-> <<>>, count |-> Undef]

\* { signal: null, triggeredAt: null, pctChange: null }
NullEntry == Entry(NoSignal, Null, Null, Undef)

\* the n-th index visited by a scan that runs upward from index 1
ScanIndex_forward(hi, n) == n + 1

\* the n-th index visited by for (i = hi; i > lo; --i), n = 0, 1, ...
ScanIndex(hi, n) == hi - n

\* for (i = hi; i > lo; --i) { if (Buy(i)) {..; break} if (Sell(i)) {..; break} }
ScanBack(Buy(_), Sell(_), hi, lo) ==
  LET Step(acc, n) ==
        LET i == ScanIndex(hi, n)
        IN  IF acc.idx # Null THEN acc
            ELSE IF Buy(i) THEN [signal |-> "Buy", idx |-> i]
            ELSE IF Sell(i) THEN [signal |-> "Sell", idx |-> i]
            ELSE acc
  IN  Loop(Step, 0, hi - lo - 1, [signal |-> NoSignal, idx |-> Null])

\* ((last - closes[idx]) / closes[idx]) * 100 * (signal === 'Buy' ? 1 : -1)
PctChange(closes, idx, signal) ==
  Mul(Mul(Div(Sub(closes[Len(closes)], At(closes, idx)), At(closes, idx)), N(100)),
      IF signal = "Buy" THEN N(1) ELSE N(0 - 1))

\* new Date(+klines[idx][0]), carried as its millisecond value
\* DateOf reading the row's closeTime
DateOf_closeTime(kl, idx) == kl[idx + 1][7]

DateOf(kl, idx) == parseTime(kl[idx + 1])

BaseEntry(kl, closes, found) ==
  Entry(found.signal,
        IF found.idx # Null THEN DateOf(kl, found.idx) ELSE Null,
        IF found.idx # Null /\ found.idx < Len(closes)
        THEN PctChange(closes, found.idx, found.signal) ELSE Null,
        found.idx)

MaxOf(a) ==
  LET Step(m, i) == IF IsNaN(m) \/ IsNaN(a[i]) THEN NaN ELSE IF ToNum(a[i]) > m THEN ToNum(a[i]) ELSE m
  IN  Loop(Step, 1, Len(a), NegInf)

MinOf(a) ==
  LET Step(m, i) == IF IsNaN(m) \/ IsNaN(a[i]) THEN NaN ELSE IF ToNum(a[i]) < m THEN ToNum(a[i]) ELSE m
  IN  Loop(Step, 1, Len(a), PosInf)

\* agreeWithin without the test of the gap
agreeWithin_anyGap(signals, keys, maxGap) ==
  LET idxs == Build(Len(keys), LAMBDA n :
                IF signals[keys[n]].triggeredAt # Null THEN signals[keys[n]].idx ELSE Null)
  IN  IF \E n \in 1..Len(idxs) : idxs[n] = Null \/ idxs[n] = Undef
      THEN [signal |-> NoSignal, idx |-> Null]
      ELSE LET sigs == Build(Len(keys), LAMBDA n : signals[keys[n]].signal)
           IN  IF \A n \in 1..Len(sigs) : sigs[n] = sigs[1] /\ sigs[n] # NoSignal
               THEN [signal |-> sigs[1], idx |-> MaxOf(idxs)]
               ELSE [signal |-> NoSignal, idx |-> Null]

agreeWithin(signals, keys, maxGap) ==
  LET idxs == Build(Len(keys), LAMBDA n :
                IF signals[keys[n]].triggeredAt # Null THEN signals[keys[n]].idx ELSE Null)
  IN  IF \E n \in 1..Len(idxs) : idxs[n] = Null \/ idxs[n] = Undef
      THEN [signal |-> NoSignal, idx |-> Null]
      ELSE LET max == MaxOf(idxs)
               min == MinOf(idxs)
               sigs == Build(Len(keys), LAMBDA n : signals[keys[n]].signal)
           IN  IF max - min <= maxGap
                  /\ \A n \in 1..Len(sigs) : sigs[n] = sigs[1] /\ sigs[n] # NoSignal
               THEN [signal |-> sigs[1], idx |-> max]
               ELSE [signal |-> NoSignal, idx |-> Null]

live_MinLen == 30

BaseKeys == <<"wavetrend", "rsi", "ema", "ma_crossover", "breakout">>

\* two base entries with the same direction no more than 3 candles apart
PairCombo_within(kl, closes, a, b) ==
  IF a.signal # NoSignal /\ b.signal # NoSignal /\ a.signal = b.signal
     /\ a.idx - b.idx <= 3 /\ b.idx - a.idx <= 3
  THEN LET idx == IF a.idx > b.idx THEN a.idx ELSE b.idx
       IN  Entry(a.signal, DateOf(kl, idx), PctChange(closes, idx, a.signal), Undef)
  ELSE NullEntry

\* lines 202-211 / 213-222: two base entries with the same direction
PairCombo(kl, closes, a, b) ==
  IF a.signal # NoSignal /\ b.signal # NoSignal /\ a.signal = b.signal
  THEN LET idx == IF a.idx > b.idx THEN a.idx ELSE b.idx
       IN  Entry(a.signal, DateOf(kl, idx), PctChange(closes, idx, a.signal), Undef)
  ELSE NullEntry

\* the cluster entry for one direction, at its earliest member
ClusterEntry_first(kl, closes, signals, members, dir) ==
  LET idx == MinOf(Build(Len(members), LAMBDA n : signals[members[n]].idx))
  IN  [signal |-> dir, triggeredAt |-> DateOf(kl, idx),
       pctChange |-> PctChange(closes, idx, dir), idx |-> Undef,
       indicators |-> members, count |-> Len(members)]

\* lines 241-258 / 259-277: the cluster entry for one direction
ClusterEntry(kl, closes, signals, members, dir) ==
  LET idx == MaxOf(Build(Len(members), LAMBDA n : signals[members[n]].idx))
  IN  [signal |-> dir, triggeredAt |-> DateOf(kl, idx),
       pctChange |-> PctChange(closes, idx, dir), idx |-> Undef,
       indicators |-> members, count |-> Len(members)]

\* lines 96-199: the last signal of each of the five indicators
baseScan(kl, closes, wt1, wt2, rsiArr, ema21, ema20, ema50, recentHigh, recentLow) ==
  Then(<<rsiArr, ema21, ema20, ema50, recentHigh, recentLow>>,
    LET n == Len(closes)
        wtBuy(i) == /\ Lt(At(wt1, i - 1), At(wt2, i - 1)) /\ Gt(At(wt1, i), At(wt2, i))
                    /\ Le(At(wt2, i), N(0 - 55))
        wtSell(i) == /\ Gt(At(wt1, i - 1), At(wt2, i - 1)) /\ Lt(At(wt1, i), At(wt2, i))
                     /\ Ge(At(wt2, i), N(55))
        rsiBuy(i) == Lt(At(rsiArr, i - 1), N(30)) /\ Ge(At(rsiArr, i), N(30))
        rsiSell(i) == Gt(At(rsiArr, i - 1), N(70)) /\ Le(At(rsiArr, i), N(70))
        emaBuy(i) == Le(At(closes, i - 1), At(ema21, i - 1)) /\ Gt(At(closes, i), At(ema21, i))
        emaSell(i) == Ge(At(closes, i - 1), At(ema21, i - 1)) /\ Lt(At(closes, i), At(ema21, i))
        maBuy(i) == Le(At(ema20, i - 1), At(ema50, i - 1)) /\ Gt(At(ema20, i), At(ema50, i))
        maSell(i) == Ge(At(ema20, i - 1), At(ema50, i - 1)) /\ Lt(At(ema20, i), At(ema50, i))
        boBuy(i) == Gt(At(closes, i), Mul(recentHigh, N(1) + 20 * (Scale \div 1000)))
                    /\ Le(At(closes, i - 1), recentHigh)
        boSell(i) == Lt(At(closes, i), Mul(recentLow, N(1) - 20 * (Scale \div 1000)))
                     /\ Ge(At(closes, i - 1), recentLow)
    IN  [wavetrend |-> BaseEntry(kl, closes, ScanBack(wtBuy, wtSell, Len(wt1) - 1, 0)),
         rsi |-> BaseEntry(kl, closes, ScanBack(rsiBuy, rsiSell, Len(rsiArr) - 1, 0)),
         ema |-> BaseEntry(kl, closes, ScanBack(emaBuy, emaSell, n - 1, 0)),
         ma_crossover |-> BaseEntry(kl, closes, ScanBack(maBuy, maSell, n - 1, 0)),
         breakout |-> BaseEntry(kl, closes,
                        IF n >= 20 THEN ScanBack(boBuy, boSell, n - 1, n - 5)
                        ELSE [signal |-> NoSignal, idx |-> Null])])

\* the 19 closes that end before the four candles the breakout scan visits
recentCloses_older(closes) == SubSeq(closes, Len(closes) - 22, Len(closes) - 4)

\* closes.slice(-20, -1): the 19 closes before the latest one
recentCloses(closes) == SubSeq(closes, Len(closes) - 19, Len(closes) - 1)

\* lines 95-149: the series and the recent extremes the five scans read
baseOfWt(kl, closes, wt) ==
  Then(wt,
    baseScan(kl, closes, wt.wt1, wt.wt2, rsi(closes, 21),
             ema(closes, 21), ema(closes, 20), ema(closes, 50),
             MaxOf(recentCloses(closes)), MinOf(recentCloses(closes))))

baseSignals(kl, closes, highs, lows) ==
  baseOfWt(kl, closes, wavetrend(closes, highs, lows, 13, 21))

\* the direction with the most agreeing entries, Buy on a tie
clusterDirection_majority(buys, sells) ==
  IF buys >= 2 /\ buys >= sells THEN "Buy"
  ELSE IF sells >= 2 THEN "Sell"
  ELSE NoSignal

\* lines 241, 260: if (buys.length >= 2) ... else if (sells.length >= 2)
clusterDirection(buys, sells) ==
  IF buys >= 2 THEN "Buy"
  ELSE IF sells >= 2 THEN "Sell"
  ELSE NoSignal

\* lines 201-286: the base entries with the three combos and the cluster
comboSignals(kl, closes, signals) ==
  Then(signals,
    LET agree == agreeWithin(signals, <<"wavetrend", "rsi">>, 3)
        lastSignals == SelectSeq(BaseKeys, LAMBDA k :
                         signals[k].signal # NoSignal /\ signals[k].idx # Null
                           /\ signals[k].idx # Undef)
        buys == SelectSeq(lastSignals, LAMBDA k : signals[k].signal = "Buy")
        sells == SelectSeq(lastSignals, LAMBDA k : signals[k].signal = "Sell")
    IN  [k \in {"wavetrend", "rsi", "ema", "ma_crossover", "breakout",
                "wt_ema", "rsi_ema", "wt_rsi", "cluster"} |->
          CASE k = "wt_ema" -> PairCombo(kl, closes, signals["wavetrend"], signals["ema"])
            [] k = "rsi_ema" -> PairCombo(kl, closes, signals["rsi"], signals["ema"])
            [] k = "wt_rsi" ->
                 IF agree.signal # NoSignal
                 THEN Entry(agree.signal, DateOf(kl, agree.idx),
                            PctChange(closes, agree.idx, agree.signal), Undef)
                 ELSE NullEntry
            [] k = "cluster" ->
                 IF Len(lastSignals) >= 2 /\ clusterDirection(Len(buys), Len(sells)) = "Buy"
                 THEN ClusterEntry(kl, closes, signals, buys, "Buy")
                 ELSE IF Len(lastSignals) >= 2
                           /\ clusterDirection(Len(buys), Len(sells)) = "Sell"
                 THEN ClusterEntry(kl, closes, signals, sells, "Sell")
                 ELSE NullEntry
            [] OTHER -> signals[k]])

\* lines 91-286: from closes, highs and lows to the returned object
signalsOfCandles(kl, closes, highs, lows) ==
  Then(<<closes, highs, lows>>,
    comboSignals(kl, closes, baseSignals(kl, closes, highs, lows)))

getSignals(klinesArg) ==
  IF klinesArg.isNull \/ Len(klinesArg.rows) < live_MinLen
  THEN [k \in {"wavetrend", "rsi", "ema", "ma_crossover", "breakout",
               "wt_ema", "rsi_ema", "wt_rsi", "cluster"} |-> NullEntry]
  ELSE signalsOfCandles(
         klinesArg.rows,
         Build(Len(klinesArg.rows), LAMBDA i : ToNum(parseClose(klinesArg.rows[i]))),
         Build(Len(klinesArg.rows), LAMBDA i : ToNum(parseHigh(klinesArg.rows[i]))),
         Build(Len(klinesArg.rows), LAMBDA i : ToNum(parseLow(klinesArg.rows[i]))))

-----------------------------------------------------------------------------
(* Candle series the model is run on                                       *)

\* one-minute candles
IntervalMs == 60 * 1000

\* openTime of the first candle
StartTime == 10 * IntervalMs

\* high = close + Wick, low = close - Wick
Wick == Scale \div 2

StartPrice == N(100)

\* closes as a walk: StartPrice, then one candle per delta
Walk(deltas) ==
  LET Step(acc, i) == Append(acc, acc[Len(acc)] + deltas[i])
  IN  Loop(Step, 1, Len(deltas), <<StartPrice>>)

\* Binance rows: openTime, open, high, low, close, volume, closeTime
Candles(closes) ==
  Build(Len(closes), LAMBDA i :
    <<StartTime + (i - 1) * IntervalMs, closes[i], closes[i] + Wick, closes[i] - Wick,
      closes[i], N(1), StartTime + i * IntervalMs - 1>>)

\* count copies of delta
Run(count, delta) == Build(count, LAMBDA i : delta)

ZigZag == Run(6, 1000) \o Run(6, -1000) \o Run(6, 1000) \o Run(6, -1000)
            \o Run(6, 1000) \o Run(6, -1000) \o Run(6, 1000) \o Run(6, -1000)

Bases ==
  { Run(48, 1000), Run(20, 500) \o Run(28, -800), ZigZag,
    Run(47, -1000), Run(46, -1000), Run(45, -1000),
    Run(27, 700), Run(26, -700), Run(25, -700),
    \* three peaks at 106, a fourth at candle 42, then flat just below them
    SubSeq(ZigZag, 1, 42) \o <<0 - 400>> \o Run(4, 0),
    \* three peaks at 106, then a close above them at candle 40 of 50
    SubSeq(ZigZag, 1, 36) \o Run(3, 1000) \o <<4100>> \o Run(7, 0),
    \* two peaks at 106 and one at 105, then a close above all three at candle 47
    SubSeq(ZigZag, 1, 24) \o Run(5, 1000) \o Run(5, 0 - 1000) \o Run(10, 400)
      \o Run(2, 600) \o <<2000>> }

TailLen == 2

Deltas == {-1500, 300, 1500}

Inputs ==
  {NullArr, Arr(<<>>)}
    \cup { Arr(Candles(Walk(b \o t))) : b \in Bases, t \in [1..TailLen -> Deltas] }

-----------------------------------------------------------------------------
(* server.js: detectSignals(symbol, interval, klines) and the signals      *)
(* table.  db.run and stmt.run hand a statement to the database and        *)
(* return; outside db.serialize the database is in parallel mode, where    *)
(* the statements of different statement objects run in no fixed order.    *)

server_MinLen == 50

\* nothing handed to the database
NoStatements == [delete |-> <<>>, inserts |-> <<>>]

\* lines 490-502: the values bound by stmt.run for one signal of the pair
Row(signal, symbol, interval) ==
  [symbol |-> symbol, interval |-> interval, type |-> signal.type, price |-> signal.price,
   timestamp |-> signal.timestamp, created_at |-> signal.created_at,
   \* signal.indicator || 'unknown', signal.strength || 'medium'
   indicator |-> IF signal.indicator = "" THEN "unknown" ELSE signal.indicator,
   strength |-> IF signal.strength = "" THEN "medium" ELSE signal.strength,
   \* signal.meta ? JSON.stringify(signal.meta) : null
   meta |-> IF signal.meta = <<>> THEN [null |-> TRUE]
            ELSE [json |-> [count |-> signal.meta[1].count,
                            indicators |-> signal.meta[1].indicators]]]

\* the statements handed to the database by detectSignals(symbol, interval, klines)
\* called at time t
server_detectSignals(klinesArg, symbol, interval, t) ==
  IF klinesArg.isNull \/ Len(klinesArg.rows) < server_MinLen THEN NoStatements
  ELSE LET allSignals == detectAllSignals(klinesArg, t)
           oneDayAgo == t - 24 * 60 * 60 * 1000
       IN  IF Len(allSignals) > 0
           THEN [delete |-> <<[symbol |-> symbol, interval |-> interval,
                               after |-> oneDayAgo]>>,
                 inserts |-> Build(Len(allSignals),
                                   LAMBDA n : Row(allSignals[n], symbol, interval))]
           ELSE NoStatements

\* DELETE FROM signals WHERE symbol = ? AND created_at > ?
DeleteFrom_symbol(rows, stmt) ==
  SelectSeq(rows, LAMBDA row : ~(row.symbol = stmt.symbol /\ row.created_at > stmt.after))

\* DELETE FROM signals WHERE symbol = ? AND interval = ? AND created_at > ?
DeleteFrom(rows, stmt) ==
  SelectSeq(rows, LAMBDA row :
    ~(row.symbol = stmt.symbol /\ row.interval = stmt.interval /\ row.created_at > stmt.after))

-----------------------------------------------------------------------------
(* The calls                                                               *)

MaxNow == 2

Init ==
  /\ klines \in Inputs
  /\ now = 0
  /\ aggInput = <<>>
  /\ aggGroups = NoGroups
  /\ result = [op |-> "none", out |-> <<>>]
  /\ runs = <<>>
  /\ table = <<>>
  /\ queue = NoStatements
  /\ calls = 0

\* a call is made after construction or after a detectAllSignals call; Date.now()
\* has advanced by the next call
CanCall == now < MaxNow /\ result.op \in {"none", "detectAllSignals"}

\* index.js detectAllSignals(klines)
DetectAllSignals ==
  /\ CanCall
  /\ LET r == detectAllSignalsRun(klines, now)
     IN  /\ result' = [op |-> "detectAllSignals", out |-> r.out]
         /\ aggInput' = r.allSignals
         /\ aggGroups' = r.groups
         /\ runs' = Append(runs, r.out)
  /\ now' = now + 1
  /\ UNCHANGED <<klines, table, queue, calls>>

Detector(op, out) ==
  /\ CanCall
  /\ result' = [op |-> op, out |-> out]
  /\ now' = now + 1
  /\ UNCHANGED <<klines, aggInput, aggGroups, runs, table, queue, calls>>

WtDetectSignals == Detector("wavetrend.detectSignals", wt_detectSignals(klines, now))

RsiDetectSignals == Detector("rsi.detectSignals", rsi_detectSignals(klines, now))

MaDetectSignals == Detector("ma_crossover.detectSignals", ma_detectSignals(klines, now))

BoDetectSignals == Detector("breakouts.detectSignals", bo_detectSignals(klines, now))

\* utils/signals.js getSignals(klines)
GetSignals == Detector("getSignals", getSignals(klines))

Next ==
  \/ DetectAllSignals
  \/ WtDetectSignals
  \/ RsiDetectSignals
  \/ MaDetectSignals
  \/ BoDetectSignals
  \/ GetSignals

Spec == Init /\ [][Next]_vars

-----------------------------------------------------------------------------
(* The aggregator called on its own: detectClusterSignals(signals, klines) *)

MaxSigs == 3

SigTimes == {StartTime, StartTime + 3 * IntervalMs, StartTime + 6 * IntervalMs}

SigTags == {"wavetrend-crossover", "rsi-crossover", "ema-crossover"}

SigChoices == [type : {"buy", "sell"}, timestamp : SigTimes, indicator : SigTags]

\* the i-th signal of a list has price 100 + i
SignalList(c) ==
  Build(Len(c), LAMBDA i :
    Signal(c[i].type, N(100 + i), c[i].timestamp, 0, c[i].indicator, "medium"))

SignalLists == { SignalList(c) : c \in UNION { [1..n -> SigChoices] : n \in 0..MaxSigs } }

\* one-minute candles, and no candles (the 5-minute default period)
ClusterKlines == {Arr(Candles(Walk(Run(2, 300)))), NullArr}

InitCluster ==
  /\ klines \in ClusterKlines
  /\ now = 0
  /\ aggInput \in SignalLists
  /\ aggGroups = NoGroups
  /\ result = [op |-> "none", out |-> <<>>]
  /\ runs = <<>>
  /\ table = <<>>
  /\ queue = NoStatements
  /\ calls = 0

DetectClusterSignals ==
  /\ result.op = "none"
  /\ result' = [op |-> "detectClusterSignals",
                out |-> detectClusterSignals(aggInput, klines, now)]
  /\ aggGroups' = (IF Len(aggInput) < 2 THEN NoGroups ELSE clusterGroups(aggInput, klines))
  /\ aggInput' = (IF Len(aggInput) < 2 THEN aggInput ELSE signalsAfterCall(aggInput))
  /\ now' = now + 1
  /\ UNCHANGED <<klines, runs, table, queue, calls>>

NextCluster == DetectClusterSignals

SpecCluster == InitCluster /\ [][NextCluster]_vars


-----------------------------------------------------------------------------
(* The MA-crossover detector on series long enough for SMA200              *)

MaTailLen == 3

\* candles 0 .. n at StartPrice, then MaTailLen moves
MaInputs ==
  { Arr(Candles(Walk(Run(n, 0) \o t))) :
      n \in {198, 199, 200, 201}, t \in [1..MaTailLen -> {0 - 3000, 0, 2000}] }

InitMa ==
  /\ klines \in MaInputs
  /\ now = 0
  /\ aggInput = <<>>
  /\ aggGroups = NoGroups
  /\ result = [op |-> "none", out |-> <<>>]
  /\ runs = <<>>
  /\ table = <<>>
  /\ queue = NoStatements
  /\ calls = 0

SpecMa == InitMa /\ [][MaDetectSignals]_vars

-----------------------------------------------------------------------------
(* Live mode on series long enough for its WaveTrend and EMA50 crossings   *)

LiveInputs ==
  LET bases ==
  { \* a long fall, then a turn whose RSI crossing comes 5 candles after WaveTrend's
    Run(80, 0 - 1000) \o <<1500, 1000, 1000, 1000, 1000, 9000>>,
    \* a long fall, then a turn whose RSI crossing comes 2 candles after WaveTrend's
    Run(80, 0 - 1000) \o <<1500, 1000, 9000>>,
    \* the same turn, then a close below the 20-candle low
    Run(80, 0 - 1000) \o <<1500, 1000, 9000, 0 - 13000>>,
    \* a long rise, then a sharp turn down
    Run(80, 1000) \o <<0 - 3000, 0 - 2000, 0 - 20000>>,
    \* a rise and a fall, a fall and a rise: EMA20 crosses EMA50
    Run(60, 1000) \o Run(30, 0 - 1500),
    Run(60, 0 - 1000) \o Run(30, 1000),
    \* too short a fall for a WaveTrend or an EMA50 crossing
    Run(47, 0 - 1000),
    \* a rise, a long fall, a turn up and a crash below the 20-candle low
    Run(60, 1000) \o Run(80, 0 - 1000) \o <<1500, 1000, 9000, 0 - 14000>> }
  IN  { Arr(Candles(Walk(b \o t))) : b \in bases, t \in {<<>>} \cup [1..TailLen -> Deltas] }

InitLive ==
  /\ klines \in LiveInputs
  /\ now = 0
  /\ aggInput = <<>>
  /\ aggGroups = NoGroups
  /\ result = [op |-> "none", out |-> <<>>]
  /\ runs = <<>>
  /\ table = <<>>
  /\ queue = NoStatements
  /\ calls = 0

SpecLive == InitLive /\ [][GetSignals]_vars

-----------------------------------------------------------------------------
(* The server's background fetch: detectSignals for one pair after another *)

MaxCalls == 2

StoreInputs ==
  { NullArr,
    Arr(Candles(Walk(Run(49, 0)))),
    Arr(Candles(Walk(Run(46, 0) \o <<1500, 0 - 1500, 1500>>))) }

InitStore ==
  /\ klines = NullArr
  /\ now = 0
  /\ aggInput = <<>>
  /\ aggGroups = NoGroups
  /\ result = [op |-> "none", out |-> <<>>]
  /\ runs = <<>>
  /\ table = <<>>
  /\ queue = NoStatements
  /\ calls = 0

\* await detectSignals(symbol, interval, klines) for one of two of the TOP_COINS x
\* SUPPORTED_TIMEFRAMES pairs with the klines got for it, once the statements of
\* the call before have run; the next call comes a moment or more than a day later
ServerDetectSignals ==
  /\ calls < MaxCalls
  /\ queue = NoStatements
  /\ \E pair \in {<<"BTCUSDT", "5m">>, <<"BTCUSDT", "1h">>},
        pause \in {1, 24 * 60 * 60 * 1000 + 1},
        klinesArg \in StoreInputs :
       /\ klines' = klinesArg
       /\ queue' = server_detectSignals(klinesArg, pair[1], pair[2], now)
       /\ result' = [op |-> "server.detectSignals", out |-> queue'.inserts,
                     symbol |-> pair[1], interval |-> pair[2], now |-> now]
       /\ now' = now + pause
  /\ calls' = calls + 1
  /\ UNCHANGED <<aggInput, aggGroups, runs, table>>

\* the database runs the DELETE
RunDelete ==
  /\ queue.delete # <<>>
  /\ table' = DeleteFrom(table, queue.delete[1])
  /\ queue' = [queue EXCEPT !.delete = <<>>]
  /\ UNCHANGED <<klines, now, aggInput, aggGroups, result, runs, calls>>

\* the database runs the next stmt.run of the prepared INSERT
RunInsert ==
  /\ queue.inserts # <<>>
  /\ table' = Append(table, Head(queue.inserts))
  /\ queue' = [queue EXCEPT !.inserts = Tail(queue.inserts)]
  /\ UNCHANGED <<klines, now, aggInput, aggGroups, result, runs, calls>>

NextStore ==
  \/ ServerDetectSignals
  \/ RunDelete
  \/ RunInsert

SpecStore == InitStore /\ [][NextStore]_vars

-----------------------------------------------------------------------------
(* The background job for one pair: the klines cache and the upstream      *)

\* getIntervalInMs of the SUPPORTED_TIMEFRAMES
getIntervalInMs(interval) ==
  CASE interval = "5m" -> 5 * 60 * 1000
    [] interval = "15m" -> 15 * 60 * 1000
    [] interval = "1h" -> 60 * 60 * 1000
    [] interval = "4h" -> 4 * 60 * 60 * 1000
    [] interval = "1d" -> 24 * 60 * 60 * 1000
    [] OTHER -> 60 * 60 * 1000

\* the open time of the last candle of the cached row, null without a row or
\* with an empty one
getLastKlinesTimestamp(cache) ==
  IF cache.isNull \/ Len(cache.rows) = 0 THEN Null
  ELSE parseTime(cache.rows[Len(cache.rows)])

\* Math.ceil(timeSinceLastBar / intervalMs)
missedBarsAt(lastTimestamp, t, interval) ==
  ((t - lastTimestamp) + getIntervalInMs(interval) - 1) \div getIntervalInMs(interval)

\* lines 540-557: the limit passed to getKlines
limitFor(lastTimestamp, t, interval) ==
  IF Truthy(lastTimestamp)
  THEN LET missedBars == missedBarsAt(lastTimestamp, t, interval)
       IN  IF missedBars > 5
           THEN (IF missedBars + 50 < 1000 THEN missedBars + 50 ELSE 1000)
           ELSE 100
  ELSE 1000

\* getKlines(symbol, interval, limit): the cached row if there is one, else the
\* batches of 500 fetched from the upstream, which are then cached; ok is whether
\* the fetch succeeds
getKlines(cache, upstream, limit, ok) ==
  IF ~cache.isNull THEN [error |-> FALSE, data |-> cache.rows, cache |-> cache]
  ELSE IF ~ok THEN [error |-> TRUE, data |-> <<>>, cache |-> cache]
  ELSE LET batches == (limit + 499) \div 500
           size == IF Len(upstream) < 500 * batches THEN Len(upstream) ELSE 500 * batches
           allKlines == SubSeq(upstream, Len(upstream) - size + 1, Len(upstream))
       IN  [error |-> FALSE, data |-> allKlines, cache |-> Arr(allKlines)]

\* the 5m candles of the pair that Binance has at time t: a flat market since the
\* listing that starts to swing at the 47th candle
Upstream(t) ==
  LET deltas == Run(46, 0) \o <<1500, 0 - 1500, 1500, 0 - 1500, 0 - 1500, 1500, 1500,
                                0 - 1500, 1500, 0 - 1500, 1500, 0 - 1500, 1500, 0 - 1500>>
      opened == 1 + (t - StartTime) \div getIntervalInMs("5m")
      closes == Walk(SubSeq(deltas, 1, (IF opened < Len(deltas) + 1 THEN opened
                                        ELSE Len(deltas) + 1) - 1))
  IN  Build(Len(closes), LAMBDA i :
        <<StartTime + (i - 1) * getIntervalInMs("5m"), closes[i], closes[i] + Wick,
          closes[i] - Wick, closes[i], N(1), StartTime + i * getIntervalInMs("5m") - 1>>)

\* the server starts with the tables dropped, when the pair has 48, 50 or 52
\* candles
InitFetch ==
  /\ klines = NullArr
  /\ now \in { StartTime + (k - 1) * getIntervalInMs("5m") + 1000 : k \in {48, 50, 52} }
  /\ aggInput = <<>>
  /\ aggGroups = NoGroups
  /\ result = [op |-> "none", out |-> <<>>]
  /\ runs = <<>>
  /\ table = <<>>
  /\ queue = NoStatements
  /\ calls = 0

\* one pass of backgroundFetchAllTimeframes over the pair BTCUSDT/5m, once the
\* statements of the pass before have run; the next pass comes after one, three
\* or seven periods of the job
BackgroundFetch ==
  /\ calls < MaxCalls
  /\ queue = NoStatements
  /\ \E ok \in BOOLEAN, periods \in {1, 3, 7} :
       LET lastTimestamp == getLastKlinesTimestamp(klines)
           got == getKlines(klines, Upstream(now), limitFor(lastTimestamp, now, "5m"), ok)
       IN  /\ klines' = got.cache
           /\ queue' = (IF got.error THEN NoStatements
                        ELSE server_detectSignals(Arr(got.data), "BTCUSDT", "5m", now))
           /\ result' = [op |-> "backgroundFetch", error |-> got.error, out |-> got.data,
                         lastTimestamp |-> lastTimestamp,
                         limit |-> limitFor(lastTimestamp, now, "5m"), now |-> now]
           /\ now' = now + periods * 5 * 60 * 1000
  /\ calls' = calls + 1
  /\ UNCHANGED <<aggInput, aggGroups, runs, table>>

NextFetch ==
  \/ BackgroundFetch
  \/ RunDelete
  \/ RunInsert

SpecFetch == InitFetch /\ [][NextFetch]_vars

-----------------------------------------------------------------------------
(* Candles with non-numeric fields: parseFloat and unary + give NaN        *)

\* series in which the open, high, low and close of fields are NaN at the candles
\* (0-based) of holes
NaNInputs ==
  LET series == { Candles(Walk(ZigZag \o <<0 - 1500, 300>>)),
                  Candles(Walk(Run(80, 0 - 1000) \o <<1500, 1000, 9000>>)) }
      last(rows) == Len(rows) - 1
      holes(rows) == { {last(rows)}, {last(rows) - 1}, {25}, {40, 41},
                       {last(rows) - 4, last(rows) - 2}, 0..last(rows) }
      NonNumeric(rows, h, fields) ==
        Build(Len(rows), LAMBDA i :
          IF i - 1 \in h
          THEN [f \in 1..Len(rows[i]) |-> IF f \in fields THEN NaN ELSE rows[i][f]]
          ELSE rows[i])
  IN  UNION { { Arr(NonNumeric(rows, h, f)) :
                  h \in holes(rows), f \in {{5}, {3, 4}, {2, 3, 4, 5}} } :
              rows \in series }

InitNaN ==
  /\ klines \in NaNInputs
  /\ now = 0
  /\ aggInput = <<>>
  /\ aggGroups = NoGroups
  /\ result = [op |-> "none", out |-> <<>>]
  /\ runs = <<>>
  /\ table = <<>>
  /\ queue = NoStatements
  /\ calls = 0

NextNaN ==
  \/ DetectAllSignals
  \/ GetSignals

SpecNaN == InitNaN /\ [][NextNaN]_vars

-----------------------------------------------------------------------------
(* The pivot search and the zone grouping on short series                  *)

PivotLen == 5

\* series of up to PivotLen candles taken from four candles whose highs and lows
\* lie within and beyond 0.5% of each other
PivotInputs ==
  LET shapes == { <<100000, 99700>>, <<100400, 99000>>, <<100800, 99700>>, <<102000, 99000>> }
      rowsOf(c) == Build(Len(c), LAMBDA i :
                     <<StartTime + (i - 1) * IntervalMs, c[i][2], c[i][1], c[i][2], c[i][2],
                       N(1), StartTime + i * IntervalMs - 1>>)
  IN  { Arr(rowsOf(c)) : c \in UNION { [1..n -> shapes] : n \in 0..PivotLen } }

InitPivot ==
  /\ klines \in PivotInputs
  /\ now = 0
  /\ aggInput = <<>>
  /\ aggGroups = NoGroups
  /\ result = [op |-> "none", out |-> <<>>]
  /\ runs = <<>>
  /\ table = <<>>
  /\ queue = NoStatements
  /\ calls = 0

\* const pivots = findPivotPoints(klines, lookback)
FindPivotPoints ==
  /\ result.op = "none"
  /\ \E lookback \in {1, 2} :
       result' = [op |-> "findPivotPoints", out |-> findPivotPoints(klines.rows, lookback),
                  lookback |-> lookback]
  /\ UNCHANGED <<klines, now, aggInput, aggGroups, runs, table, queue, calls>>

\* const zones = groupPivotLevels(pivots)
GroupPivotLevels ==
  /\ result.op = "findPivotPoints"
  /\ result' = [op |-> "groupPivotLevels", out |-> groupPivotLevels(result.out, Tolerance),
                pivots |-> result.out]
  /\ UNCHANGED <<klines, now, aggInput, aggGroups, runs, table, queue, calls>>

NextPivot ==
  \/ FindPivotPoints
  \/ GroupPivotLevels

SpecPivot == InitPivot /\ [][NextPivot]_vars

-----------------------------------------------------------------------------
(* Properties                                                              *)

Directions == {"buy", "sell"}

AfterDetectAll == result.op = "detectAllSignals"

\* the 'cluster'-tagged signals of the last returned list
ClustersIn(out) == SelectSeq(out, LAMBDA s : s.indicator = "cluster")

Range(a) == { a[i] : i \in 1..Len(a) }

\* C1: every 'cluster' signal returned by detectAllSignals that carries
\* meta.indicators lists no 'cluster' tag, and every tag it lists is the indicator
\* of a non-cluster signal of the same returned list.
C1_ClusterTagsFromNonCluster ==
  AfterDetectAll =>
    \A c \in Range(ClustersIn(result.out)) :
      c.meta # <<>> =>
        \A tag \in Range(c.meta[1].indicators) :
          /\ tag # "cluster"
          /\ \E s \in Range(result.out) : s.indicator # "cluster" /\ s.indicator = tag

\* detectAllSignals returned a cluster that lists its tags
C1_Witness ==
  /\ AfterDetectAll
  /\ \E c \in Range(ClustersIn(result.out)) :
       c.meta # <<>> /\ Len(c.meta[1].indicators) >= 1

\* C2: every 'cluster' signal returned by detectAllSignals carries meta, with
\* meta.count at least 3, meta.indicators a non-empty duplicate-free list of tags,
\* and meta.count at least the number of tags.
C2_ClusterCarriesMeta ==
  AfterDetectAll =>
    \A c \in Range(ClustersIn(result.out)) :
      /\ c.meta # <<>>
      /\ c.meta[1].count >= 3
      /\ Len(c.meta[1].indicators) >= 1
      /\ Cardinality(Range(c.meta[1].indicators)) = Len(c.meta[1].indicators)
      /\ c.meta[1].count >= Len(c.meta[1].indicators)

\* a cluster whose contributing signals outnumber its tags
C2_Witness ==
  /\ AfterDetectAll
  /\ \E c \in Range(ClustersIn(result.out)) :
       c.meta # <<>> /\ c.meta[1].count > Len(c.meta[1].indicators)

\* C3: in the aggregator's time grouping every member of a group lies within
\* 5 candle periods of the group's first member.
C3_WithinFirstMember ==
  AfterDetectAll =>
    \A dir \in Directions :
      \A g \in Range(aggGroups[dir]) :
        \A m \in 1..Len(g) :
          g[m].timestamp - g[1].timestamp <= 5 * getCandlePeriodMs(klines)

\* the groups of 3 or more
BigGroups(dir) == SelectSeq(aggGroups[dir], LAMBDA g : Len(g) >= 3)

\* c is the cluster signal of group g
ClusterOfGroup(c, g, dir) ==
  /\ c.indicator = "cluster"
  /\ c.type = dir
  /\ c.price = g[Len(g)].price
  /\ c.timestamp = g[Len(g)].timestamp
  /\ c.meta # <<>>
  /\ c.meta[1].count = Len(g)
  /\ Range(c.meta[1].indicators) = { g[m].indicator : m \in 1..Len(g) }
  /\ Cardinality(Range(c.meta[1].indicators)) = Len(c.meta[1].indicators)

\* three Buy signals with three different tags inside one 5-period window
ThreeBuysOneWindow ==
  /\ Len(aggInput) = 3
  /\ \A i \in 1..3 : aggInput[i].type = "buy"
  /\ Cardinality({ aggInput[i].indicator : i \in 1..3 }) = 3
  /\ \A i, j \in 1..3 :
       aggInput[i].timestamp - aggInput[j].timestamp <= 5 * getCandlePeriodMs(klines)

\* C4: detectClusterSignals returns, per direction, exactly one 'cluster' signal
\* for each of its time groups with 3 or more members, in the groups' order, and
\* none for smaller groups; the cluster has the group's direction, the price and
\* timestamp of the group's last member, meta.count = the group's size and
\* meta.indicators = the members' tags without duplicates. Three Buy signals with
\* different tags inside one 5-period window give exactly one cluster Buy with
\* meta.count = 3.
C4_OneClusterPerGroup ==
  result.op = "detectClusterSignals" =>
    /\ \A dir \in Directions :
         LET big == BigGroups(dir)
             cl == SelectSeq(result.out, LAMBDA s : s.type = dir)
         IN  /\ Len(cl) = Len(big)
             /\ \A k \in 1..Len(cl) : ClusterOfGroup(cl[k], big[k], dir)
    /\ \A c \in Range(result.out) : c.type \in Directions
    /\ ThreeBuysOneWindow =>
         /\ Len(result.out) = 1
         /\ result.out[1].type = "buy"
         /\ result.out[1].indicator = "cluster"
         /\ result.out[1].meta[1].count = 3

\* the cluster scenario was run, out of timestamp order, and gave its cluster
C4_Witness ==
  /\ result.op = "detectClusterSignals"
  /\ ThreeBuysOneWindow
  /\ aggInput[1].timestamp > aggInput[3].timestamp
  /\ Len(result.out) = 1
  /\ result.out[1].price = aggInput[1].price

\* the detector that emits a tag
DetectorOf(tag) ==
  CASE tag \in {"wavetrend-crossover", "wavetrend", "wavetrend+rsi", "cluster"} -> "wavetrend"
    [] tag \in {"rsi-oversold", "rsi-overbought", "rsi-crossover", "rsi-divergence"} -> "rsi"
    [] tag \in {"golden-cross", "death-cross", "ema-crossover", "price-ema-cross"} -> "ma_crossover"
    [] tag \in {"resistance-breakout", "support-breakout"} -> "breakouts"
    [] OTHER -> "none"

\* C5: the signals contributing to a cluster signal of detectAllSignals never all
\* come from one single detector.
C5_DifferentDetectors ==
  AfterDetectAll =>
    \A dir \in Directions :
      \A g \in Range(BigGroups(dir)) :
        Cardinality({ DetectorOf(g[m].indicator) : m \in 1..Len(g) }) >= 2

\* C5: every cluster signal of detectAllSignals stands for a group of at least 3
\* signals of the detectors' combined output, all of the cluster's direction, in
\* timestamp order with successive timestamps at most 5 candle periods apart,
\* ending at the cluster's timestamp; the members may all come from one detector.
C5_SameDirectionGroup ==
  AfterDetectAll =>
    \A c \in Range(ClustersIn(result.out)) :
      \E g \in Range(aggGroups[c.type]) :
        /\ Len(g) >= 3
        /\ c.meta # <<>> /\ c.meta[1].count = Len(g)
        /\ g[Len(g)].timestamp = c.timestamp
        /\ \A m \in 1..Len(g) : g[m].type = c.type /\ g[m] \in Range(aggInput)
        /\ \A m \in 1..(Len(g) - 1) :
             /\ g[m].timestamp <= g[m + 1].timestamp
             /\ g[m + 1].timestamp - g[m].timestamp <= 5 * getCandlePeriodMs(klines)

\* a cluster all of whose contributing signals come from the RSI detector
C5_Witness ==
  /\ AfterDetectAll
  /\ Len(ClustersIn(result.out)) >= 1
  /\ \E dir \in Directions :
       \E g \in Range(BigGroups(dir)) :
         \A m \in 1..Len(g) : DetectorOf(g[m].indicator) = "rsi"

\* the openTimes of the input's candles
OpenTimes == IF klines.isNull THEN {} ELSE { parseTime(klines.rows[j]) : j \in 1..Len(klines.rows) }

LiveKeys ==
  {"wavetrend", "rsi", "ema", "ma_crossover", "breakout", "wt_ema", "rsi_ema", "wt_rsi",
   "cluster"}

\* C6: every signal returned by detectAllSignals has the openTime of a candle of
\* the input as its timestamp, and every non-null triggeredAt returned by
\* getSignals is the openTime of a candle of the input.
C6_TimestampIsOpenTime ==
  /\ AfterDetectAll => \A s \in Range(result.out) : s.timestamp \in OpenTimes
  /\ result.op = "getSignals" =>
       \A k \in LiveKeys :
         result.out[k].triggeredAt # Null => result.out[k].triggeredAt \in OpenTimes

\* detectAllSignals returned detector and cluster signals, and getSignals on the
\* same candles then returned an entry with a triggeredAt
C6_Witness ==
  /\ result.op = "getSignals"
  /\ \E k \in LiveKeys : result.out[k].triggeredAt # Null
  /\ Len(runs) >= 1
  /\ Len(ClustersIn(runs[1])) >= 1
  /\ Len(runs[1]) > Len(ClustersIn(runs[1]))

\* klines.length, 0 for a null array
InputLength == IF klines.isNull THEN 0 ELSE Len(klines.rows)

\* C7: on fewer than 50 candles (null and empty included) detectAllSignals and the
\* wave-oscillator, RSI and breakout detectors return an empty list, on fewer than
\* 100 the MA-crossover detector does, and on fewer than 30 getSignals returns
\* nine entries whose signal, triggeredAt and pctChange are null.
C7_ShortInputGivesNothing ==
  /\ ( /\ result.op \in {"detectAllSignals", "wavetrend.detectSignals",
                          "rsi.detectSignals", "breakouts.detectSignals"}
       /\ InputLength < 50 ) => result.out = <<>>
  /\ (result.op = "ma_crossover.detectSignals" /\ InputLength < 100) => result.out = <<>>
  /\ (result.op = "getSignals" /\ InputLength < 30) =>
       /\ DOMAIN result.out = LiveKeys
       /\ \A k \in LiveKeys :
            /\ result.out[k].signal = NoSignal
            /\ result.out[k].triggeredAt = Null
            /\ result.out[k].pctChange = Null

\* the RSI detector was called on a series of 40 to 49 candles
C7_Witness ==
  /\ result.op = "rsi.detectSignals"
  /\ InputLength >= 40 /\ InputLength < 50
  /\ result.out = <<>>

\* a signal without its created_at
Tuple(s) == [type |-> s.type, price |-> s.price, timestamp |-> s.timestamp,
             indicator |-> s.indicator, strength |-> s.strength, meta |-> s.meta]

\* C8: any two detectAllSignals calls on the same candle array return lists of
\* the same length whose signals are pairwise equal in (type, price, timestamp,
\* indicator, strength, meta).
C8_Deterministic ==
  \A a, b \in 1..Len(runs) :
    /\ Len(runs[a]) = Len(runs[b])
    /\ \A k \in 1..Len(runs[a]) : Tuple(runs[a][k]) = Tuple(runs[b][k])

\* two calls at different times returned detector signals and a cluster
C8_Witness ==
  /\ Len(runs) >= 2
  /\ Len(ClustersIn(runs[2])) >= 1
  /\ Len(runs[2]) > Len(ClustersIn(runs[2]))
  /\ runs[1][1].created_at # runs[2][1].created_at

\* The persisted wave-oscillator detector returns no signal on any input: the
\* first ci is 0/0, so wt1 and wt2 are NaN throughout and no comparison holds.
WtSilent ==
  /\ result.op = "wavetrend.detectSignals" => result.out = <<>>
  /\ (result.op = "wavetrend.detectSignals" /\ InputLength >= 50) =>
       LET wt == calculateWaveTrend(klines.rows, 13, 21)
       IN  \A i \in 1..InputLength : IsNaN(wt[1][i]) /\ IsNaN(wt[2][i])

\* the RSI(14) series of the input: the value at index k belongs to candle k + 14
Rsi14 == rsi_calculateRSI(klines.rows, 14)

\* the RSI detector's result has a signal tagged tag at candle i (0-based)
EmittedAt(tag, type, i) ==
  \E s \in Range(result.out) :
    s.indicator = tag /\ s.type = type /\ s.timestamp = parseTime(klines.rows[i + 1])

AfterRsi == result.op = "rsi.detectSignals" /\ InputLength >= 50

CloseAt(i) == parseClose(klines.rows[i + 1])

\* the RSI detector's result has a signal tagged tag at candle i with this strength
EmittedWith(tag, type, strength, i) ==
  \E s \in Range(result.out) :
    /\ s.indicator = tag /\ s.type = type /\ s.strength = strength
    /\ s.timestamp = parseTime(klines.rows[i + 1])

\* C11: at every scanned candle i the RSI detector emits an 'rsi-divergence' Buy
\* exactly when close[i] < close[i-5] and the RSI of candle i is above the RSI of
\* candle i-5, strong exactly when the RSI of candle i is below 40; and a Sell
\* exactly when close[i] > close[i-5] and the RSI of candle i is below that of
\* candle i-5, strong exactly when the RSI of candle i is above 60.
C11_DivergenceAtCandle ==
  AfterRsi =>
    LET rsi14 == Rsi14
    IN  \A i \in 30..(InputLength - 1) :
          LET rsiHere == At(rsi14, i - 14)
              rsiBack == At(rsi14, i - 19)
              bullish == Lt(CloseAt(i), CloseAt(i - 5)) /\ Gt(rsiHere, rsiBack)
              bearish == Gt(CloseAt(i), CloseAt(i - 5)) /\ Lt(rsiHere, rsiBack)
          IN  /\ EmittedAt("rsi-divergence", "buy", i) <=> bullish
              /\ EmittedAt("rsi-divergence", "sell", i) <=> bearish
              /\ EmittedWith("rsi-divergence", "buy", "strong", i) <=>
                   (bullish /\ Lt(rsiHere, N(40)))
              /\ EmittedWith("rsi-divergence", "sell", "strong", i) <=>
                   (bearish /\ Gt(rsiHere, N(60)))

\* the number of signals of the result with this tag, direction and strength at
\* candle i (0-based)
CountAt(tag, type, strength, i) ==
  Cardinality({ n \in 1..Len(result.out) :
                /\ result.out[n].indicator = tag /\ result.out[n].type = type
                /\ result.out[n].strength = strength
                /\ result.out[n].timestamp = parseTime(klines.rows[i + 1]) })

\* the number of signals of the result with this tag
CountTag(tag) == Cardinality({ n \in 1..Len(result.out) : result.out[n].indicator = tag })

AfterMa == result.op = "ma_crossover.detectSignals" /\ InputLength >= 100

InputCloses == Build(InputLength, LAMBDA i : parseClose(klines.rows[i]))

\* SMA50 crosses above SMA200 at candle i
GoldenAt(sma50, sma200, i) ==
  Le(At(sma50, i - 1), At(sma200, i - 1)) /\ Gt(At(sma50, i), At(sma200, i))

\* SMA50 crosses below SMA200 at candle i
DeathAt(sma50, sma200, i) ==
  Ge(At(sma50, i - 1), At(sma200, i - 1)) /\ Lt(At(sma50, i), At(sma200, i))

\* C12: at every candle i where SMA50 and SMA200 are defined at i-1 and at i
\* (i >= 200) the MA-crossover detector emits exactly one 'golden-cross'
\* buy/strong signal if SMA50[i-1] <= SMA200[i-1] and SMA50[i] > SMA200[i] and none
\* otherwise, and exactly one 'death-cross' sell/strong signal if
\* SMA50[i-1] >= SMA200[i-1] and SMA50[i] < SMA200[i] and none otherwise.
C12_EveryDefinedIndex ==
  AfterMa =>
    LET sma50 == calculateSMA(InputCloses, 50)
        sma200 == calculateSMA(InputCloses, 200)
    IN  \A i \in 200..(InputLength - 1) :
          /\ CountAt("golden-cross", "buy", "strong", i)
               = (IF GoldenAt(sma50, sma200, i) THEN 1 ELSE 0)
          /\ CountAt("death-cross", "sell", "strong", i)
               = (IF DeathAt(sma50, sma200, i) THEN 1 ELSE 0)

\* C12: at every candle i > 200 the MA-crossover detector emits exactly one
\* 'golden-cross' buy/strong signal if SMA50[i-1] <= SMA200[i-1] and
\* SMA50[i] > SMA200[i] and none otherwise, and exactly one 'death-cross'
\* sell/strong signal if SMA50[i-1] >= SMA200[i-1] and SMA50[i] < SMA200[i] and none
\* otherwise; no signal with either tag is emitted at a candle i <= 200 or with
\* another direction or strength.
C12_AfterIndex200 ==
  AfterMa =>
    LET sma50 == calculateSMA(InputCloses, 50)
        sma200 == calculateSMA(InputCloses, 200)
        crossings(Cross(_, _, _)) ==
          Cardinality({ i \in 201..(InputLength - 1) : Cross(sma50, sma200, i) })
    IN  /\ \A i \in 201..(InputLength - 1) :
             /\ CountAt("golden-cross", "buy", "strong", i)
                  = (IF GoldenAt(sma50, sma200, i) THEN 1 ELSE 0)
             /\ CountAt("death-cross", "sell", "strong", i)
                  = (IF DeathAt(sma50, sma200, i) THEN 1 ELSE 0)
        /\ CountTag("golden-cross") = crossings(GoldenAt)
        /\ CountTag("death-cross") = crossings(DeathAt)

\* a series with a single upward crossing, at a candle after index 200, gave
\* exactly one golden-cross signal, at that candle
C12_Witness ==
  /\ AfterMa
  /\ CountTag("golden-cross") = 1
  /\ LET sma50 == calculateSMA(InputCloses, 50)
         sma200 == calculateSMA(InputCloses, 200)
     IN  \E i \in 201..(InputLength - 1) :
           /\ GoldenAt(sma50, sma200, i)
           /\ CountAt("golden-cross", "buy", "strong", i) = 1
           /\ \A j \in 200..(InputLength - 1) : j # i => ~GoldenAt(sma50, sma200, j)

AfterBo == result.op = "breakouts.detectSignals" /\ InputLength >= 50

\* the zones with 2 or more pivots of the input
StrongZones ==
  SelectSeq(groupPivotLevels(findPivotPoints(klines.rows, 5), Tolerance),
            LAMBDA zone : zone.count >= 2)

StrengthOf(zone) == IF zone.count >= 3 THEN "strong" ELSE "medium"

\* the close of candle c breaks up through the resistance zone after the close of
\* the candle before was below it
BreaksUp(zone, c) ==
  /\ zone.type = "resistance"
  /\ Lt(CloseAt(c - 1), zone.level)
  /\ Gt(CloseAt(c), Mul(zone.level, BreakUp))

\* the close of candle c breaks down through the support zone after the close of
\* the candle before was above it
BreaksDown(zone, c) ==
  /\ zone.type = "support"
  /\ Gt(CloseAt(c - 1), zone.level)
  /\ Lt(CloseAt(c), Mul(zone.level, BreakDown))

\* the breakout signals of the result are, for every candle of cs, one Buy per
\* zone it breaks up through and one Sell per zone it breaks down through, each
\* with the zone's strength, and nothing else
BreakoutsExactlyAt(cs) ==
  LET zones == StrongZones
      ups(c, strength) ==
        Cardinality({ z \in 1..Len(zones) :
                      BreaksUp(zones[z], c) /\ StrengthOf(zones[z]) = strength })
      downs(c, strength) ==
        Cardinality({ z \in 1..Len(zones) :
                      BreaksDown(zones[z], c) /\ StrengthOf(zones[z]) = strength })
      Total(Count(_, _)) ==
        LET Sum(acc, j) ==
              acc + Count(j \div 2, IF j % 2 = 0 THEN "strong" ELSE "medium")
        IN  Loop(Sum, 0, 2 * InputLength - 1, 0)
      InCs(Count(_, _), c, strength) == IF c \in cs THEN Count(c, strength) ELSE 0
      upsIn(c, strength) == InCs(ups, c, strength)
      downsIn(c, strength) == InCs(downs, c, strength)
  IN  /\ \A c \in cs, strength \in {"strong", "medium"} :
           /\ CountAt("resistance-breakout", "buy", strength, c) = ups(c, strength)
           /\ CountAt("support-breakout", "sell", strength, c) = downs(c, strength)
      /\ Len(result.out) = Total(upsIn) + Total(downsIn)

\* C13: the breakout detector emits, for every candle c among the last 10 candles
\* and every zone with count >= 2, a 'resistance-breakout' Buy at c exactly when the
\* zone is a resistance, close(c-1) < level and close(c) > level * 1.005, and a
\* 'support-breakout' Sell at c exactly when the zone is a support, close(c-1) > level
\* and close(c) < level * 0.995, strong when the zone's count >= 3 and medium
\* otherwise; and it emits nothing else.
C13_LastTenCandles ==
  AfterBo => BreakoutsExactlyAt((InputLength - 10)..(InputLength - 1))

\* C13: the same for every candle c among the last 9 candles: the first of the last
\* 10 candles only serves as the candle before.
C13_LastNineCandles ==
  AfterBo => BreakoutsExactlyAt((InputLength - 9)..(InputLength - 1))

\* a close among the last 9 candles broke up through a zone of 3 or more pivots
\* and the detector emitted a strong 'resistance-breakout' Buy at that candle
C13_Witness ==
  /\ AfterBo
  /\ \E c \in (InputLength - 9)..(InputLength - 1), z \in 1..Len(StrongZones) :
       /\ BreaksUp(StrongZones[z], c)
       /\ StrongZones[z].count >= 3
       /\ CountAt("resistance-breakout", "buy", "strong", c) >= 1


AfterLive == result.op = "getSignals" /\ InputLength >= 30

\* the entry of the live result under key k
Live(k) == result.out[k]

\* the base entries of the live result with direction dir
Agreeing(dir) == { k \in Range(BaseKeys) : Live(k).signal = dir }

\* the greatest trigger index of the entries keys
LatestIdx(keys) == CHOOSE i \in { Live(k).idx : k \in keys } : \A k \in keys : Live(k).idx <= i

\* the open time of candle i (0-based) of the input
OpenTimeAt(i) == parseTime(klines.rows[i + 1])

PairAgrees(combo, a, b) ==
  LET both == Live(a).signal # NoSignal /\ Live(b).signal = Live(a).signal
  IN  /\ Live(combo).signal # NoSignal <=> both
      /\ both => /\ Live(combo).signal = Live(a).signal
                 /\ Live(combo).triggeredAt = OpenTimeAt(LatestIdx({a, b}))
      /\ ~both => Live(combo).triggeredAt = Null

\* C15: in live mode wt_ema is non-null exactly when the wavetrend and ema entries
\* are non-null with the same direction, rsi_ema exactly when the rsi and ema entries
\* are; the composite has that direction and the open time of the candle at the
\* larger of the two trigger indices, however far apart the two are.
C15_PairCombos ==
  AfterLive => PairAgrees("wt_ema", "wavetrend", "ema") /\ PairAgrees("rsi_ema", "rsi", "ema")

\* wt_ema is non-null for a wavetrend and an ema trigger more than 3 candles apart
C15_Witness ==
  /\ AfterLive
  /\ Live("wt_ema").signal # NoSignal
  /\ Live("ema").idx - Live("wavetrend").idx > 3
  /\ Live("rsi_ema").signal # NoSignal

\* the wavetrend and rsi entries are non-null with the same direction
WtRsiAgree == Live("wavetrend").signal # NoSignal /\ Live("rsi").signal = Live("wavetrend").signal

\* the distance of the wavetrend and rsi trigger indices
WtRsiGap ==
  IF Live("wavetrend").idx > Live("rsi").idx
  THEN Live("wavetrend").idx - Live("rsi").idx
  ELSE Live("rsi").idx - Live("wavetrend").idx

\* C16: in live mode wt_rsi is non-null exactly when the wavetrend and rsi entries
\* are non-null with the same direction and trigger indices at most 3 candles apart;
\* it is null when they are more than 3 apart; when non-null it has that direction
\* and the open time of the candle at the larger of the two indices.
C16_WtRsiWithin3 ==
  AfterLive =>
    LET within == WtRsiAgree /\ WtRsiGap <= 3
    IN  /\ Live("wt_rsi").signal # NoSignal <=> within
        /\ within => /\ Live("wt_rsi").signal = Live("wavetrend").signal
                     /\ Live("wt_rsi").triggeredAt = OpenTimeAt(LatestIdx({"wavetrend", "rsi"}))
        /\ ~within => Live("wt_rsi").triggeredAt = Null

\* wt_rsi is non-null for triggers at different candles
C16_Witness ==
  /\ AfterLive
  /\ Live("wt_rsi").signal # NoSignal
  /\ WtRsiGap > 0

\* the wavetrend and rsi entries agree more than 3 candles apart
C16_WitnessApart == AfterLive /\ WtRsiAgree /\ WtRsiGap > 3

\* the entry under key k reports the greatest index in 1 .. hi at which Buy or Sell
\* holds, with the direction that holds there, or null if there is none
MostRecent(k, Buy(_), Sell(_), hi) ==
  LET qualifying == { i \in 1..hi : Buy(i) \/ Sell(i) }
  IN  IF qualifying = {}
      THEN Live(k).signal = NoSignal /\ Live(k).idx = Null
      ELSE /\ Live(k).idx \in qualifying
           /\ \A i \in qualifying : i <= Live(k).idx
           /\ Live(k).signal = (IF Buy(Live(k).idx) THEN "Buy" ELSE "Sell")
           /\ Buy(Live(k).idx) # Sell(Live(k).idx)

InputHighs == Build(InputLength, LAMBDA i : parseHigh(klines.rows[i]))

InputLows == Build(InputLength, LAMBDA i : parseLow(klines.rows[i]))

\* C17: in live mode the wavetrend, rsi, ema and ma_crossover entries each report
\* the most recent qualifying crossing: idx is the greatest index i >= 1 at which
\* the detector's Buy or Sell condition holds, signal the direction of the crossing
\* there; if no index qualifies, signal and idx are null.
C17_MostRecentCrossing ==
  AfterLive =>
    LET closes == InputCloses
        wt == wavetrend(closes, InputHighs, InputLows, 13, 21)
        wt1 == wt.wt1
        wt2 == wt.wt2
        rsiArr == rsi(closes, 21)
        ema21 == ema(closes, 21)
        ema20 == ema(closes, 20)
        ema50 == ema(closes, 50)
        wtBuy(i) == /\ Lt(At(wt1, i - 1), At(wt2, i - 1)) /\ Gt(At(wt1, i), At(wt2, i))
                    /\ Le(At(wt2, i), N(0 - 55))
        wtSell(i) == /\ Gt(At(wt1, i - 1), At(wt2, i - 1)) /\ Lt(At(wt1, i), At(wt2, i))
                     /\ Ge(At(wt2, i), N(55))
        rsiBuy(i) == Lt(At(rsiArr, i - 1), N(30)) /\ Ge(At(rsiArr, i), N(30))
        rsiSell(i) == Gt(At(rsiArr, i - 1), N(70)) /\ Le(At(rsiArr, i), N(70))
        emaBuy(i) == Le(At(closes, i - 1), At(ema21, i - 1)) /\ Gt(At(closes, i), At(ema21, i))
        emaSell(i) == Ge(At(closes, i - 1), At(ema21, i - 1)) /\ Lt(At(closes, i), At(ema21, i))
        maBuy(i) == Le(At(ema20, i - 1), At(ema50, i - 1)) /\ Gt(At(ema20, i), At(ema50, i))
        maSell(i) == Ge(At(ema20, i - 1), At(ema50, i - 1)) /\ Lt(At(ema20, i), At(ema50, i))
    IN  /\ MostRecent("wavetrend", wtBuy, wtSell, Len(wt1) - 1)
        /\ MostRecent("rsi", rsiBuy, rsiSell, Len(rsiArr) - 1)
        /\ MostRecent("ema", emaBuy, emaSell, InputLength - 1)
        /\ MostRecent("ma_crossover", maBuy, maSell, InputLength - 1)

\* the ema entry reports a Sell crossing that came after a Buy crossing of the
\* close through EMA21, and the other three entries report a crossing too
C17_Witness ==
  /\ AfterLive
  /\ Live("ema").signal = "Sell"
  /\ LET ema21 == ema(InputCloses, 21)
     IN  \E i \in 1..(Live("ema").idx - 1) :
           /\ Le(At(InputCloses, i - 1), At(ema21, i - 1))
           /\ Gt(At(InputCloses, i), At(ema21, i))
  /\ Live("wavetrend").signal # NoSignal
  /\ Live("rsi").signal # NoSignal

\* the last call of the server's detectSignals stored a non-empty list
AfterStore == result.op = "server.detectSignals" /\ Len(result.out) > 0

\* the stored signals of the last call's pair created in the 24 hours before it
RecentOfPair ==
  SelectSeq(table, LAMBDA row :
    /\ row.symbol = result.symbol /\ row.interval = result.interval
    /\ row.created_at > result.now - 24 * 60 * 60 * 1000)

\* C18: when the server's detectSignals stores a non-empty list, the deletion of
\* the pair's signals of the last 24 hours takes effect before any new signal is
\* inserted, and once the statements of the call have run, the stored signals of
\* the pair created in the last 24 hours are exactly the newly detected list.
C18_DeleteBeforeInsert ==
  AfterStore =>
    /\ queue.delete # <<>> => queue.inserts = result.out
    /\ queue = NoStatements => RecentOfPair = result.out

\* the candle (0-based) of the input that opens at time ts
CandleAt(ts) == CHOOSE c \in 0..(InputLength - 1) : OpenTimeAt(c) = ts

\* some value compared by the condition of this persisted signal is NaN
ComparesNaN(s) ==
  LET c == CandleAt(s.timestamp)
      rsi14 == Rsi14
      rsi14Ema == rsi_calculateEMA(rsi14, 9)
      anyNaN(values) == \E v \in values : IsNaN(v)
  IN  CASE s.indicator \in {"resistance-breakout", "support-breakout"} ->
             anyNaN({CloseAt(c - 1), CloseAt(c)})
        [] s.indicator \in {"rsi-oversold", "rsi-overbought"} ->
             anyNaN({At(rsi14, c - 15), At(rsi14, c - 16)})
        [] s.indicator = "rsi-crossover" ->
             anyNaN({At(rsi14, c - 15), At(rsi14, c - 16),
                     At(rsi14Ema, c - 15), At(rsi14Ema, c - 16)})
        [] s.indicator = "rsi-divergence" ->
             anyNaN({CloseAt(c), CloseAt(c - 5),
                     At(rsi14, Len(rsi14) - 1), At(rsi14, Len(rsi14) - 6)})
        [] OTHER -> FALSE

\* some value compared by the crossing condition behind this live base entry is NaN
LiveComparesNaN(k) ==
  LET i == Live(k).idx
      closes == InputCloses
      wt == wavetrend(closes, InputHighs, InputLows, 13, 21)
      crossing(a, b) == \E v \in {At(a, i - 1), At(b, i - 1), At(a, i), At(b, i)} : IsNaN(v)
  IN  CASE k = "wavetrend" -> crossing(wt.wt1, wt.wt2)
        [] k = "rsi" -> crossing(rsi(closes, 21), rsi(closes, 21))
        [] k = "ema" -> crossing(closes, ema(closes, 21))
        [] k = "ma_crossover" -> crossing(ema(closes, 20), ema(closes, 50))
        [] k = "breakout" -> IsNaN(At(closes, i)) \/ IsNaN(At(closes, i - 1))

\* some candle of the input has a non-numeric open, high, low or close
HasNaN ==
  ~klines.isNull /\ \E j \in 1..Len(klines.rows), f \in 2..5 : klines.rows[j][f] = NaN

RsiOfCandle(i) == At(Rsi14, i - rsi_Period)

\* C21: the RSI detector decides the signals of candle i on the RSI value that
\* belongs to candle i: 'rsi-oversold' Buy is emitted at a scanned candle i
\* exactly when the RSI of candle i and of candle i-1 are below 30 and the RSI of
\* candle i is the greater, 'rsi-overbought' Sell exactly when both are above 70
\* and the RSI of candle i is the smaller.
C21_ReadsOwnCandle ==
  AfterRsi =>
    \A i \in rsi_LoopStart..(InputLength - 1) :
      /\ EmittedAt("rsi-oversold", "buy", i) <=>
           /\ Lt(RsiOfCandle(i), N(30))
           /\ Lt(RsiOfCandle(i - 1), N(30))
           /\ Gt(RsiOfCandle(i), RsiOfCandle(i - 1))
      /\ EmittedAt("rsi-overbought", "sell", i) <=>
           /\ Gt(RsiOfCandle(i), N(70))
           /\ Gt(RsiOfCandle(i - 1), N(70))
           /\ Lt(RsiOfCandle(i), RsiOfCandle(i - 1))

\* the live WaveTrend series of the input
LiveWt == wavetrend(InputCloses, InputHighs, InputLows, 13, 21)

\* C22: in live mode wt1 holds a number at every candle index from 0 on.
C22_NumericFromZero ==
  AfterLive =>
    LET wt1 == LiveWt.wt1
    IN  /\ Len(wt1) = InputLength
        /\ \A i \in 0..(InputLength - 1) : IsFin(At(wt1, i))

\* C22: in live mode wt1 comes from the SMA-seeded EMA of period 21: it has one
\* entry per candle, the entries 0..19 are undefined and those from 20 on are
\* numbers; wt2 is a number from index 22 on only, and a wavetrend entry is
\* reported at an index of 23 or more.
C22_SmaSeededWarmUp ==
  AfterLive =>
    LET wt1 == LiveWt.wt1
        wt2 == LiveWt.wt2
    IN  /\ Len(wt1) = InputLength
        /\ \A i \in 0..(InputLength - 1) :
             /\ i < 21 - 1 => At(wt1, i) = Undef
             /\ i >= 21 - 1 => IsFin(At(wt1, i))
             /\ i < 21 + 1 => ~IsFin(At(wt2, i))
             /\ i >= 21 + 1 => IsFin(At(wt2, i))
        /\ Live("wavetrend").signal # NoSignal => Live("wavetrend").idx >= 21 + 2

\* a live result with a wavetrend crossing, computed on a series whose wt1 starts
\* with undefined entries
C22_Witness ==
  /\ AfterLive
  /\ Live("wavetrend").signal # NoSignal
  /\ At(LiveWt.wt1, 0) = Undef

AfterPivots == result.op = "findPivotPoints"

\* the candles i (0-based) between the margins at which no candle of the window
\* of lookback candles on either side has a greater (sign 1) or smaller (sign -1)
\* value in column col
PivotIndices(col, sign, lookback) ==
  { i \in lookback..(InputLength - lookback - 1) :
      \A j \in (i - lookback)..(i + lookback) :
        sign * klines.rows[j + 1][col] <= sign * klines.rows[i + 1][col] }

\* C23: findPivotPoints(klines, lookback) returns a resistance pivot at index i
\* exactly when lookback <= i < length - lookback and no candle of the window
\* [i-lookback, i+lookback] has a high strictly greater than high(i), and a support
\* pivot exactly when none has a low strictly smaller than low(i); each pivot
\* carries the candle's high or low and open time; a series shorter than
\* 2*lookback+1 yields none.
C23_PivotsExactly ==
  AfterPivots =>
    LET pivots == result.out
        highs == PivotIndices(3, 1, result.lookback)
        lows == PivotIndices(4, 0 - 1, result.lookback)
    IN  /\ { p.index : p \in { q \in Range(pivots) : q.type = "resistance" } } = highs
        /\ { p.index : p \in { q \in Range(pivots) : q.type = "support" } } = lows
        /\ Len(pivots) = Cardinality(highs) + Cardinality(lows)
        /\ \A p \in Range(pivots) :
             /\ p.type \in {"resistance", "support"}
             /\ p.timestamp = parseTime(klines.rows[p.index + 1])
             /\ p.level = (IF p.type = "resistance" THEN parseHigh(klines.rows[p.index + 1])
                           ELSE parseLow(klines.rows[p.index + 1]))
        /\ InputLength < 2 * result.lookback + 1 => pivots = <<>>

\* two neighbouring candles with the same high are both resistance pivots, and
\* another candle of the series is not
C23_Witness ==
  /\ AfterPivots
  /\ \E p, q \in Range(result.out) :
       /\ p.type = "resistance" /\ q.type = "resistance"
       /\ q.index = p.index + 1 /\ p.level = q.level
  /\ \E i \in result.lookback..(InputLength - result.lookback - 1) :
       \A p \in Range(result.out) : p.type = "resistance" => p.index # i

AfterZones == result.op = "groupPivotLevels"

\* level b is at or above level a and within 0.5% of it, relative to a
WithinTolerance(a, b) == a <= b /\ (b - a) * 1000 <= 5 * a

\* C24: groupPivotLevels partitions its input: every pivot is in exactly one zone
\* and the zone counts sum to the number of pivots; the pivots of a zone are in
\* ascending level order, each within 0.5% of the one before it; and the lowest
\* level of a zone is more than 0.5% above the highest level of the zone before.
C24_ZonesPartition ==
  AfterZones =>
    LET zones == result.out
        pivots == result.pivots
        Sum(sum, z) == sum + zones[z].count
    IN  /\ \A p \in Range(pivots) :
             Cardinality({ z \in 1..Len(zones) : p \in Range(zones[z].pivots) }) = 1
        /\ \A z \in 1..Len(zones) :
             /\ Range(zones[z].pivots) \subseteq Range(pivots)
             /\ zones[z].count = Len(zones[z].pivots)
             /\ zones[z].count = Cardinality(Range(zones[z].pivots))
             /\ zones[z].count >= 1
             /\ \A k \in 2..zones[z].count :
                  WithinTolerance(zones[z].pivots[k - 1].level, zones[z].pivots[k].level)
             /\ z > 1 =>
                  LET below == zones[z - 1].pivots[zones[z - 1].count].level
                      lowest == zones[z].pivots[1].level
                  IN  below < lowest /\ ~WithinTolerance(below, lowest)
        /\ Loop(Sum, 1, Len(zones), 0) = Len(pivots)

\* pivots given out of level order fall into several zones, one of which chains
\* three levels whose ends are more than 0.5% apart
C24_Witness ==
  /\ AfterZones
  /\ Len(result.out) >= 2
  /\ result.pivots # SortByLevel(result.pivots)
  /\ \E z \in Range(result.out) :
       /\ z.count >= 3
       /\ ~WithinTolerance(z.pivots[1].level, z.pivots[z.count].level)

AfterFetch == result.op = "backgroundFetch" /\ ~result.error

\* the last cached candle was more than 5 intervals old when the pass began
StaleCache ==
  /\ result.lastTimestamp # Null
  /\ missedBarsAt(result.lastTimestamp, result.now, "5m") > 5

\* C25: when a pass of the background job finds the last cached candle of the pair
\* more than 5 intervals old, the candle series it hands to signal detection ends
\* later than the cached series did.
C25_StaleCacheRefetched ==
  (AfterFetch /\ StaleCache) =>
    /\ Len(result.out) > 0
    /\ parseTime(result.out[Len(result.out)]) > result.lastTimestamp

\* the signals of a list, without created_at, stamped no later than candle m - 1
TuplesUpTo(signals, m) ==
  LET early == SelectSeq(signals, LAMBDA s : Le(s.timestamp, parseTime(klines.rows[m])))
  IN  Build(Len(early), LAMBDA k : Tuple(early[k]))

\* C26: the RSI detector does not look ahead: for every prefix of the series of at
\* least 50 candles, the signals of the run on the whole series that are stamped
\* with a candle of the prefix are exactly the signals of the run on the prefix.
C26_NoLookAhead ==
  AfterRsi =>
    \A m \in rsi_MinLen..(InputLength - 1) :
      TuplesUpTo(result.out, m)
        = TuplesUpTo(rsi_detectSignals(Arr(SubSeq(klines.rows, 1, m)), 0), m)

\* C27: in live mode, when at least 2 base entries say Buy the cluster entry says
\* Buy, however many say Sell; the cluster entry says Sell only when fewer than 2
\* base entries say Buy and at least 2 say Sell.
C27_BuyTestedFirst ==
  AfterLive =>
    /\ Cardinality(Agreeing("Buy")) >= 2 => Live("cluster").signal = "Buy"
    /\ Live("cluster").signal = "Sell" <=>
         (Cardinality(Agreeing("Buy")) < 2 /\ Cardinality(Agreeing("Sell")) >= 2)

\* two base entries say Buy, more of them say Sell, and the cluster says Buy
C27_Witness ==
  /\ AfterLive
  /\ Cardinality(Agreeing("Buy")) >= 2
  /\ Cardinality(Agreeing("Sell")) > Cardinality(Agreeing("Buy"))
  /\ Live("cluster").signal = "Buy"

\* C28: in live mode on strictly positive closes, a non-null breakout entry has
\* the index of the latest candle.
C28_BreakoutOnLatestCandle ==
  (AfterLive /\ \A i \in 1..InputLength : InputCloses[i] > 0) =>
    (Live("breakout").signal # NoSignal => Live("breakout").idx = InputLength - 1)

\* a breakout entry on a series whose close before the latest one already lay
\* beyond the closes before it
C28_Witness ==
  /\ AfterLive
  /\ \A i \in 1..InputLength : InputCloses[i] > 0
  /\ Live("breakout").signal # NoSignal
  /\ \/ InputCloses[InputLength - 1] > MaxOf(SubSeq(InputCloses, 1, InputLength - 2))
     \/ InputCloses[InputLength - 1] < MinOf(SubSeq(InputCloses, InputLength - 20, InputLength - 2))

\* C29: every signal returned by detectAllSignals has a numeric price and a
\* numeric timestamp.
C29_NumericPriceAndTime ==
  AfterDetectAll =>
    \A s \in Range(result.out) : IsFin(s.price) /\ IsFin(s.timestamp)

\* the stored signals of a pair
RowsOf(rows, symbol, interval) ==
  SelectSeq(rows, LAMBDA row : row.symbol = symbol /\ row.interval = interval)

\* C30: a call of the server's detectSignals with fewer than 50 candles, or whose
\* detection yields no signal, hands no statement to the database and leaves the
\* stored signals as they are; and no call, and no statement of a call, changes
\* the stored signals of a pair other than the call's.
C30_StoreFrame ==
  [][/\ (calls' = calls + 1
          /\ (klines'.isNull \/ Len(klines'.rows) < 50
                \/ detectAllSignals(klines', now) = <<>>)) =>
            (queue' = NoStatements /\ table' = table)
     /\ \A interval \in {"5m", "1h"} :
          interval # result'.interval =>
            RowsOf(table', "BTCUSDT", interval) = RowsOf(table, "BTCUSDT", interval)]_vars

\* signals of the pair stored by an earlier call are still there after a call for
\* the same pair, on 50 candles or more, that detected nothing
C30_Witness ==
  /\ result.op = "server.detectSignals"
  /\ result.out = <<>>
  /\ InputLength >= 50
  /\ queue = NoStatements
  /\ RowsOf(table, result.symbol, result.interval) # <<>>

====
